---- MODULE Spec2Model ----
(***************************************************************************)
(* Link graph engine of the enkidu CLI: the wiki-link parser               *)
(* (core/link/parser.ts), the resolver (core/link/resolver.ts), the link   *)
(* index (core/link/index.ts), the link converter                          *)
(* (core/sync/link-converter.ts) and the note manager                      *)
(* (core/note/manager.ts).                                                 *)
(*                                                                         *)
(* Strings are sequences of one-character strings.  Indices stored in      *)
(* records are the 0-based JavaScript indices of the source.               *)
(***************************************************************************)
EXTENDS Integers, Sequences, FiniteSets, TLC

VARIABLES
    text,       \* parser: the content handed to the parser
    args,       \* parser: the arguments of the last createWikiLink call
    links,      \* parser: the result of the last extractWikiLinks call
    pstep,      \* parser: "idle", "input", "created", "extracted"
    files,      \* file system: the markdown files, in directory-listing order
    rtarget,    \* resolver: the target of the last resolveWikiLink call
    resolved,   \* resolver: the result of the last resolveWikiLink call
    fsLog,      \* resolver: the file-system calls the last call made
    rstep,      \* resolver: "idle", "resolved"
    index,      \* LinkIndex.index: the entries of the Map, in insertion order
    istate,     \* LinkIndex: "Empty", "Built"
    fresh,      \* the corpus is as it was when the index was last built
    broken,     \* the result of findBrokenLinks in this state, if called
    stats,      \* the result of getStatistics in this state, if called
    presult,    \* parser: the last parseWikiLink or replaceWikiLinks call
    cache,      \* the cache file: None when absent, else Some(cacheData)
    clock,      \* the time Date.now() returns
    hops,       \* lifecycle: the transitions the last call on the index made
    called,     \* lifecycle: the last call on the index or of the loader
    origin      \* lifecycle: where the graph came from: "none", "build", "cache"

parserVars == <<text, args, links, pstep>>
resolverVars == <<rtarget, resolved, fsLog, rstep>>
indexVars == <<index, istate, fresh, broken, stats>>
cacheVars == <<cache, clock, hops, called, origin>>
moreVars == <<presult, cache, clock, hops, called, origin>>
vars == <<text, args, links, pstep, files, rtarget, resolved, fsLog, rstep,
          index, istate, fresh, broken, stats, presult, cache, clock, hops, called,
          origin>>

(***************************************************************************)
(* Strings                                                                 *)
(***************************************************************************)
None == <<>>
Some(x) == <<x>>

Range(s) == {s[i] : i \in 1..Len(s)}

\* a sequence written as a function, as the tuple it is
Tuple(f) == <<>> \o f

RECURSIVE Concat(_)
Concat(ss) == IF ss = <<>> THEN <<>> ELSE Head(ss) \o Concat(Tail(ss))

\* String.prototype.slice(a, b) with 0 <= a <= b <= length
slice(s, a, b) == SubSeq(s, a + 1, b)

WhiteSpace == {" ", "\t", "\n", "\r"}

\* String.prototype.trim
trim(s) ==
    LET keep == {i \in 1..Len(s) : s[i] \notin WhiteSpace}
        Min(S) == CHOOSE x \in S : \A y \in S : x <= y
        Max(S) == CHOOSE x \in S : \A y \in S : x >= y
    IN IF keep = {} THEN <<>> ELSE SubSeq(s, Min(keep), Max(keep))

\* String.prototype.split("\n")
RECURSIVE splitLines(_)
splitLines(s) ==
    LET nl == {i \in 1..Len(s) : s[i] = "\n"}
    IN IF nl = {} THEN <<s>>
       ELSE LET k == CHOOSE x \in nl : \A y \in nl : x <= y
            IN <<SubSeq(s, 1, k - 1)>> \o splitLines(SubSeq(s, k + 1, Len(s)))

(***************************************************************************)
(* parser.ts                                                               *)
(***************************************************************************)
\* WIKI_LINK_REGEX = /\[\[([^\]|]+)(?:\|([^\]]+))?\]\]/g matched at the
\* 1-based position i of s.  A candidate is <<t, d>>: t the length of group 1,
\* d the length of group 2, 0 when the optional group does not take part.
RegexCandidates(s, i) ==
    IF i + 1 > Len(s) \/ s[i] # "[" \/ s[i + 1] # "[" THEN {}
    ELSE
    {c \in (1..Len(s)) \X (0..Len(s)) :
        LET t == c[1]
            d == c[2]
            close == IF d = 0 THEN i + 2 + t ELSE i + 3 + t + d
        IN /\ close + 1 <= Len(s)
           /\ \A k \in (i + 2)..(i + 1 + t) : s[k] \notin {"]", "|"}
           /\ d > 0 => /\ s[i + 2 + t] = "|"
                       /\ \A k \in (i + 3 + t)..(i + 2 + t + d) : s[k] # "]"
           /\ s[close] = "]" /\ s[close + 1] = "]"}

\* The match the backtracking engine returns at i: the quantifiers are greedy
\* and the optional group is tried before it is skipped.
RegexMatchAt(s, i) ==
    LET cs == RegexCandidates(s, i)
        best == CHOOSE c \in cs : \A o \in cs :
                    \/ c[1] > o[1]
                    \/ c[1] = o[1] /\ c[2] >= o[2]
        t == best[1]
        d == best[2]
    IN IF cs = {} THEN None
       ELSE Some([index |-> i - 1,
                  len   |-> IF d = 0 THEN t + 4 ELSE t + d + 5,
                  g1    |-> SubSeq(s, i + 2, i + 1 + t),
                  g2    |-> IF d = 0 THEN None
                            ELSE Some(SubSeq(s, i + 3 + t, i + 2 + t + d))])

\* WIKI_LINK_REGEX.exec(s) with lastIndex (0-based): the leftmost match at or
\* after lastIndex
RegexExec(s, lastIndex) ==
    LET hits == {i \in (lastIndex + 1)..Len(s) : RegexMatchAt(s, i) # None}
    IN IF hits = {} THEN None
       ELSE RegexMatchAt(s, CHOOSE i \in hits : \A j \in hits : i <= j)

\* the while loop of extractWikiLinks over one line
RECURSIVE lineLinks(_, _, _, _)
lineLinks(line, lastIndex, lineStart, lineNumber) ==
    LET m == RegexExec(line, lastIndex)
    IN IF m = None THEN <<>>
       ELSE LET match == m[1]
                startIndex == lineStart + match.index
                link == [raw         |-> slice(line, match.index, match.index + match.len),
                         target      |-> trim(match.g1),
                         displayText |-> IF match.g2 = None THEN None
                                         ELSE Some(trim(match.g2[1])),
                         startIndex  |-> startIndex,
                         endIndex    |-> startIndex + match.len,
                         line        |-> lineNumber + 1]
            IN <<link>> \o lineLinks(line, match.index + match.len, lineStart, lineNumber)

nextLineStart_noNewline(currentIndex, line) == currentIndex + Len(line)

\* currentIndex += line.length + 1
nextLineStart(currentIndex, line) == currentIndex + Len(line) + 1

\* the for loop of extractWikiLinks over the lines
RECURSIVE linesLinks(_, _, _)
linesLinks(lines, lineNumber, currentIndex) ==
    IF lineNumber >= Len(lines) THEN <<>>
    ELSE LET line == lines[lineNumber + 1]
         IN lineLinks(line, 0, currentIndex, lineNumber)
            \o linesLinks(lines, lineNumber + 1, nextLineStart(currentIndex, line))

extractWikiLinks(content) == linesLinks(splitLines(content), 0, 0)

createWikiLink_noDisplay(target, displayText) ==
    <<"[", "[">> \o target \o <<"]", "]">>

\* displayText is None when the argument is omitted
createWikiLink(target, displayText) ==
    IF displayText # None /\ displayText[1] # <<>>
    THEN <<"[", "[">> \o target \o <<"|">> \o displayText[1] \o <<"]", "]">>
    ELSE <<"[", "[">> \o target \o <<"]", "]">>

\* null unless the first match is the whole input
parseWikiLink_wholeInput(linkText) ==
    LET m == RegexExec(linkText, 0)
    IN IF m = None \/ m[1].index # 0 \/ m[1].len # Len(linkText) THEN None
       ELSE Some([raw         |-> linkText,
                  target      |-> trim(m[1].g1),
                  displayText |-> IF m[1].g2 = None THEN None
                                  ELSE Some(trim(m[1].g2[1])),
                  startIndex  |-> 0,
                  endIndex    |-> m[1].len])

\* parseWikiLink: the link as an option (null is None)
parseWikiLink(linkText) ==
    LET m == RegexExec(linkText, 0)
    IN IF m = None THEN None
       ELSE LET match == m[1]
            IN Some([raw         |-> slice(linkText, match.index, match.index + match.len),
                     target      |-> trim(match.g1),
                     displayText |-> IF match.g2 = None THEN None
                                     ELSE Some(trim(match.g2[1])),
                     startIndex  |-> 0,
                     endIndex    |-> match.len])

\* the replacer functions handed to replaceWikiLinks:
\*   "target"    (link) => link.target
\*   "remove"    () => ''
\*   "markdown"  (link) => `[${link.displayText || link.target}](${link.target}.md)`
Replacers == {"target", "remove", "markdown"}

replacerText(replacer, link) ==
    CASE replacer = "target" -> link.target
      [] replacer = "remove" -> <<>>
      [] OTHER ->
            <<"[">>
            \o (IF link.displayText # None /\ link.displayText[1] # <<>>
                THEN link.displayText[1] ELSE link.target)
            \o <<"]", "(">> \o link.target \o <<".", "m", "d", ")">>

\* the links are left in the order of extraction
sortLinks_ascending(ls) == ls

\* [...links].sort((a, b) => b.startIndex - a.startIndex), which is stable
RECURSIVE insertByStart(_, _)
insertByStart(sorted, link) ==
    IF sorted = <<>> THEN <<link>>
    ELSE IF Head(sorted).startIndex >= link.startIndex
         THEN <<Head(sorted)>> \o insertByStart(Tail(sorted), link)
         ELSE <<link>> \o sorted

RECURSIVE sortLinks(_)
sortLinks(ls) ==
    IF ls = <<>> THEN <<>>
    ELSE insertByStart(sortLinks(SubSeq(ls, 1, Len(ls) - 1)), ls[Len(ls)])

\* String.prototype.slice(a, b) for any a, b >= 0: both are clamped to the length
sliceClamped(s, a, b) ==
    LET lo == IF a > Len(s) THEN Len(s) ELSE a
        hi == IF b > Len(s) THEN Len(s) ELSE b
    IN IF lo >= hi THEN <<>> ELSE SubSeq(s, lo + 1, hi)

\* the for loop of replaceWikiLinks
RECURSIVE replaceEach(_, _, _)
replaceEach(result, sortedLinks, replacer) ==
    IF sortedLinks = <<>> THEN result
    ELSE LET link == Head(sortedLinks)
         IN replaceEach(sliceClamped(result, 0, link.startIndex)
                            \o replacerText(replacer, link)
                            \o sliceClamped(result, link.endIndex, Len(result)),
                        Tail(sortedLinks), replacer)

replaceWikiLinks(content, replacer) ==
    replaceEach(content, sortLinks(extractWikiLinks(content)), replacer)

(***************************************************************************)
(* Paths and the file system (utils/fs.ts)                                 *)
(***************************************************************************)
\* path.join of two parts
join(a, b) == a \o <<"/">> \o b

endsWith(s, suffix) ==
    /\ Len(suffix) <= Len(s)
    /\ SubSeq(s, Len(s) - Len(suffix) + 1, Len(s)) = suffix

startsWith(s, prefix) ==
    /\ Len(prefix) <= Len(s)
    /\ SubSeq(s, 1, Len(prefix)) = prefix

DotMd == <<".", "m", "d">>

RECURSIVE lastSlash(_, _)
lastSlash(p, i) == IF i = 0 \/ p[i] = "/" THEN i ELSE lastSlash(p, i - 1)

\* path.basename(p, ".md")
basename(p) ==
    LET last == lastSlash(p, Len(p))
        base == SubSeq(p, last + 1, Len(p))
    IN IF endsWith(base, DotMd) /\ base # DotMd
       THEN SubSeq(base, 1, Len(base) - 3)
       ELSE base

UpperCase == <<"A", "B", "C", "D", "E", "F", "G", "H", "I", "J", "K", "L", "M",
               "N", "O", "P", "Q", "R", "S", "T", "U", "V", "W", "X", "Y", "Z">>
LowerCase == <<"a", "b", "c", "d", "e", "f", "g", "h", "i", "j", "k", "l", "m",
               "n", "o", "p", "q", "r", "s", "t", "u", "v", "w", "x", "y", "z">>
Digits == {"0", "1", "2", "3", "4", "5", "6", "7", "8", "9"}

UpperToLower ==
    [c \in Range(UpperCase) |-> LowerCase[CHOOSE i \in 1..26 : UpperCase[i] = c]]

lowerChar(c) == IF c \in DOMAIN UpperToLower THEN UpperToLower[c] ELSE c

\* String.prototype.toLowerCase
toLowerCase(s) == Tuple([i \in 1..Len(s) |-> lowerChar(s[i])])

\* fileExists(path) for a file: some file of the file system has this path
fileExists(fs, path) == \E i \in 1..Len(fs) : fs[i].path = path

\* A directory readdirSync cannot list (EACCES) is kept in the file system
\* as an entry of its own, with the field listable.
IsUnlistable(e) == "listable" \in DOMAIN e /\ ~e.listable

\* fileExists(dir) for a directory: the model keeps no empty directories
dirExists(fs, dir) ==
    \E i \in 1..Len(fs) :
        \/ startsWith(fs[i].path, dir \o <<"/">>)
        \/ IsUnlistable(fs[i]) /\ fs[i].path = dir

\* listFilesRecursive(dir) throws: readdirSync has no handler, so the error
\* of dir or of any directory below it leaves every level of the recursion
readdirThrows(fs, dir) ==
    \E i \in 1..Len(fs) :
        /\ IsUnlistable(fs[i])
        /\ fs[i].path = dir \/ startsWith(fs[i].path, dir \o <<"/">>)

\* listFilesRecursive(dir, ".md"): the files under dir, in listing order
listFilesRecursive(fs, dir) ==
    LET under(f) == startsWith(f.path, dir \o <<"/">>) /\ endsWith(f.path, DotMd)
        hit == SelectSeq(fs, under)
    IN Tuple([i \in 1..Len(hit) |-> hit[i].path])

(***************************************************************************)
(* utils/slug.ts                                                           *)
(***************************************************************************)
\* /[\s_-]/
Separators == WhiteSpace \cup {"_", "-"}
IsSeparator(c) == c \in Separators

\* /[\w\s-]/
SlugChars == Range(LowerCase) \cup Digits \cup WhiteSpace \cup {"_", "-"}
IsSlugChar(c) == c \in SlugChars

RECURSIVE collapseSeparators(_)
collapseSeparators(s) ==
    IF s = <<>> THEN <<>>
    ELSE IF IsSeparator(Head(s))
         THEN IF Len(s) >= 2 /\ IsSeparator(s[2])
              THEN collapseSeparators(Tail(s))
              ELSE <<"-">> \o collapseSeparators(Tail(s))
         ELSE <<Head(s)>> \o collapseSeparators(Tail(s))

trimHyphens(s) ==
    LET keep == {i \in 1..Len(s) : s[i] # "-"}
    IN IF keep = {} THEN <<>>
       ELSE SubSeq(s, CHOOSE i \in keep : \A j \in keep : i <= j,
                      CHOOSE i \in keep : \A j \in keep : i >= j)

\* slugify: lowercase, drop what is neither a word character, whitespace nor a
\* hyphen, turn runs of whitespace, underscores and hyphens into one hyphen,
\* trim the hyphens at both ends
slugify(s) ==
    LET lower == toLowerCase(s)
        kept == SelectSeq(lower, IsSlugChar)
    IN trimHyphens(collapseSeparators(kept))

(***************************************************************************)
(* resolver.ts                                                             *)
(***************************************************************************)
Root == <<"/", "r">>
NotesDir == join(Root, <<"n", "o", "t", "e", "s">>)
BlogDir == join(Root, <<"b", "l", "o", "g">>)
DailyDir == join(Root, <<"d", "a", "i", "l", "y">>)
ContentRoots == <<NotesDir, BlogDir, DailyDir>>

\* getAllMarkdownFiles(pkmRoot): notes, then blog, then daily.  One try
\* block holds the three listings: a listing that throws pushes nothing and
\* the catch ends the function with the files pushed so far.
RECURSIVE listRoots(_, _)
listRoots(fs, roots) ==
    IF roots = <<>> THEN <<>>
    ELSE IF ~dirExists(fs, Head(roots)) THEN listRoots(fs, Tail(roots))
    ELSE IF readdirThrows(fs, Head(roots)) THEN <<>>
    ELSE listFilesRecursive(fs, Head(roots)) \o listRoots(fs, Tail(roots))

getAllMarkdownFiles(fs) == listRoots(fs, ContentRoots)

\* the file-system calls of getAllMarkdownFiles
RECURSIVE listRootsOps(_, _)
listRootsOps(fs, roots) ==
    IF roots = <<>> THEN <<>>
    ELSE <<[op |-> "fileExists", path |-> Head(roots)]>>
         \o (IF dirExists(fs, Head(roots))
             THEN <<[op |-> "listFilesRecursive", path |-> Head(roots)]>>
             ELSE <<>>)
         \o (IF dirExists(fs, Head(roots)) /\ readdirThrows(fs, Head(roots))
             THEN <<>>
             ELSE listRootsOps(fs, Tail(roots)))

\* Array.prototype.find: the first element that satisfies the test, as an
\* option; hits are the positions of the elements that satisfy it
find(seq, hits) ==
    IF hits = {} THEN None
    ELSE Some(seq[CHOOSE i \in hits : \A j \in hits : i <= j])

IsDigits(s) == \A i \in 1..Len(s) : s[i] \in Digits

\* the three date patterns of findDailyNote; each yields <<year, month, day>>
dateMatch(target, k) ==
    CASE k = 1 ->  \* /^(\d{4})-(\d{2})-(\d{2})$/
            IF /\ Len(target) = 10 /\ target[5] = "-" /\ target[8] = "-"
               /\ IsDigits(SubSeq(target, 1, 4)) /\ IsDigits(SubSeq(target, 6, 7))
               /\ IsDigits(SubSeq(target, 9, 10))
            THEN Some(<<SubSeq(target, 1, 4), SubSeq(target, 6, 7), SubSeq(target, 9, 10)>>)
            ELSE None
      [] k = 2 ->  \* /^(\d{4})\/(\d{2})\/(\d{2})$/
            IF /\ Len(target) = 10 /\ target[5] = "/" /\ target[8] = "/"
               /\ IsDigits(SubSeq(target, 1, 4)) /\ IsDigits(SubSeq(target, 6, 7))
               /\ IsDigits(SubSeq(target, 9, 10))
            THEN Some(<<SubSeq(target, 1, 4), SubSeq(target, 6, 7), SubSeq(target, 9, 10)>>)
            ELSE None
      [] OTHER ->  \* /^(\d{4})(\d{2})(\d{2})$/
            IF Len(target) = 8 /\ IsDigits(target)
            THEN Some(<<SubSeq(target, 1, 4), SubSeq(target, 5, 6), SubSeq(target, 7, 8)>>)
            ELSE None

dailyPathOf(ymd) == join(join(join(DailyDir, ymd[1]), ymd[2]), ymd[3] \o DotMd)

\* findDailyNote: the patterns in order, the first whose path exists
RECURSIVE findDailyNoteFrom(_, _, _)
findDailyNoteFrom(target, fs, k) ==
    IF k > 3 THEN None
    ELSE LET m == dateMatch(target, k)
         IN IF m # None /\ fileExists(fs, dailyPathOf(m[1]))
            THEN Some(dailyPathOf(m[1]))
            ELSE findDailyNoteFrom(target, fs, k + 1)

\* only the pattern YYYY-MM-DD is tried
findDailyNote_dashOnly(target, fs) ==
    LET m == dateMatch(target, 1)
    IN IF m # None /\ fileExists(fs, dailyPathOf(m[1]))
       THEN Some(dailyPathOf(m[1]))
       ELSE None

findDailyNote(target, fs) == findDailyNoteFrom(target, fs, 1)

\* the file-system calls of findDailyNote
RECURSIVE findDailyNoteOps(_, _, _)
findDailyNoteOps(target, fs, k) ==
    IF k > 3 THEN <<>>
    ELSE LET m == dateMatch(target, k)
         IN IF m = None THEN findDailyNoteOps(target, fs, k + 1)
            ELSE <<[op |-> "fileExists", path |-> dailyPathOf(m[1])]>>
                 \o (IF fileExists(fs, dailyPathOf(m[1])) THEN <<>>
                     ELSE findDailyNoteOps(target, fs, k + 1))

exactMatch(target, allFiles) ==
    LET test(file) == basename(file) = target
    IN find(allFiles, {i \in 1..Len(allFiles) : test(allFiles[i])})

caseInsensitiveMatch(target, allFiles) ==
    LET lowerTarget == toLowerCase(target)
        test(file) == toLowerCase(basename(file)) = lowerTarget
    IN find(allFiles, {i \in 1..Len(allFiles) : test(allFiles[i])})

slugifiedMatch(target, allFiles) ==
    LET slugifiedTarget == slugify(target)
        test(file) == \/ basename(file) = slugifiedTarget
                      \/ toLowerCase(basename(file)) = slugifiedTarget
    IN find(allFiles, {i \in 1..Len(allFiles) : test(allFiles[i])})

\* one pass over the files, taking the first that any strategy accepts
findNoteByLink_singlePass(target, fs) ==
    LET allFiles == getAllMarkdownFiles(fs)
        lowerTarget == toLowerCase(target)
        slugifiedTarget == slugify(target)
        test(file) == \/ basename(file) = target
                      \/ toLowerCase(basename(file)) = lowerTarget
                      \/ basename(file) = slugifiedTarget
                      \/ toLowerCase(basename(file)) = slugifiedTarget
        hit == find(allFiles, {i \in 1..Len(allFiles) : test(allFiles[i])})
    IN IF hit # None THEN [path |-> hit, strategy |-> 1]
       ELSE [path |-> findDailyNote(target, fs), strategy |-> 4]

\* findNoteByLink: the path as an option, and the strategy whose return
\* statement ended the call (4 also when nothing is found)
findNoteByLink(target, fs) ==
    LET allFiles == getAllMarkdownFiles(fs)
        exact == exactMatch(target, allFiles)
        caseInsensitive == caseInsensitiveMatch(target, allFiles)
        slugified == slugifiedMatch(target, allFiles)
    IN IF exact # None THEN [path |-> exact, strategy |-> 1]
       ELSE IF caseInsensitive # None THEN [path |-> caseInsensitive, strategy |-> 2]
       ELSE IF slugified # None THEN [path |-> slugified, strategy |-> 3]
       ELSE [path |-> findDailyNote(target, fs), strategy |-> 4]

\* the file-system calls of findNoteByLink, given its result: the listing,
\* then the probes of findDailyNote when strategies 1 to 3 found nothing
findNoteByLinkOps(target, fs, found) ==
    listRootsOps(fs, ContentRoots)
    \o (IF found.strategy < 4 THEN <<>> ELSE findDailyNoteOps(target, fs, 1))

Min3(x, y, z) == IF x <= y /\ x <= z THEN x ELSE IF y <= z THEN y ELSE z

\* row i of the matrix of levenshteinDistance from row i - 1; a row holds the
\* columns 0..a.length at the indices 1..a.length + 1
RECURSIVE levRow(_, _, _, _, _)
levRow(a, b, i, prev, acc) ==
    LET j == Len(acc)
    IN IF j > Len(a) THEN acc
       ELSE levRow(a, b, i, prev,
                   Append(acc, IF b[i] = a[j]
                               THEN prev[j]
                               ELSE Min3(prev[j] + 1, acc[j] + 1, prev[j + 1] + 1)))

RECURSIVE levRows(_, _, _, _)
levRows(a, b, i, prev) ==
    IF i > Len(b) THEN prev
    ELSE levRows(a, b, i + 1, levRow(a, b, i, prev, <<i>>))

levenshteinDistance(a, b) ==
    levRows(a, b, 1, Tuple([j \in 1..(Len(a) + 1) |-> j - 1]))[Len(a) + 1]

MaxSuggestions == 5
MaxScore == 5

\* Array.prototype.sort((a, b) => a.score - b.score), which is stable
RECURSIVE insertByScore(_, _)
insertByScore(sorted, item) ==
    IF sorted = <<>> THEN <<item>>
    ELSE IF Head(sorted).score <= item.score
         THEN <<Head(sorted)>> \o insertByScore(Tail(sorted), item)
         ELSE <<item>> \o sorted

RECURSIVE sortByScore(_)
sortByScore(items) ==
    IF items = <<>> THEN <<>>
    ELSE insertByScore(sortByScore(SubSeq(items, 1, Len(items) - 1)), items[Len(items)])

\* the scored slugs of findSimilarNotes, before the filter
scoredSlugs(target, fs) ==
    LET allFiles == getAllMarkdownFiles(fs)
        lowerTarget == toLowerCase(target)
    IN Tuple([i \in 1..Len(allFiles) |->
                 [slug  |-> basename(allFiles[i]),
                  score |-> levenshteinDistance(lowerTarget,
                                                toLowerCase(basename(allFiles[i])))]])

rankScored_unsorted(scored) ==
    LET close(item) == item.score <= MaxScore
        kept == SelectSeq(scored, close)
    IN SubSeq(kept, 1, IF Len(kept) < MaxSuggestions THEN Len(kept) ELSE MaxSuggestions)

\* .filter(score <= 5).sort(by score).slice(0, maxSuggestions)
rankScored(scored) ==
    LET close(item) == item.score <= MaxScore
        ranked == sortByScore(SelectSeq(scored, close))
    IN SubSeq(ranked, 1, IF Len(ranked) < MaxSuggestions THEN Len(ranked) ELSE MaxSuggestions)

findSimilarNotes(target, fs) ==
    LET top == rankScored(scoredSlugs(target, fs))
    IN Tuple([i \in 1..Len(top) |-> top[i].slug])

\* resolveWikiLink; the link field of the result is fixed by the target
\* alone.  ops are the file-system calls made: those of findNoteByLink, then
\* the listing of findSimilarNotes.
resolveWikiLink(target, fs) ==
    LET found == findNoteByLink(target, fs)
    IN IF found.path # None
       THEN [target |-> target, resolvedPath |-> found.path, exists |-> TRUE,
             suggestions |-> None,
             ops |-> findNoteByLinkOps(target, fs, found)]
       ELSE [target |-> target, resolvedPath |-> None, exists |-> FALSE,
             suggestions |-> Some(findSimilarNotes(target, fs)),
             ops |-> findNoteByLinkOps(target, fs, found) \o listRootsOps(fs, ContentRoots)]

(***************************************************************************)
(* index.ts: LinkIndex                                                  *)
(***************************************************************************)
\* the entries of a Map in insertion order: has, get, set
MapHas(m, key) == \E i \in 1..Len(m) : m[i].slug = key

MapPos(m, key) == CHOOSE i \in 1..Len(m) : m[i].slug = key

MapGet(m, key) == m[MapPos(m, key)]

\* Map.prototype.set: a new key is appended, a known key keeps its place
MapSet(m, key, value) ==
    IF MapHas(m, key) THEN [m EXCEPT ![MapPos(m, key)] = value]
    ELSE Append(m, value)

\* LinkIndex.getAllMarkdownFiles: notes, then blog, then daily
LinkIndex_getAllMarkdownFiles(fs) == listRoots(fs, ContentRoots)

\* String.prototype.indexOf(sub) from the 1-based position from; 0 if absent
RECURSIVE indexOf(_, _, _)
indexOf(s, sub, from) ==
    IF from + Len(sub) - 1 > Len(s) THEN 0
    ELSE IF SubSeq(s, from, from + Len(sub) - 1) = sub THEN from
    ELSE indexOf(s, sub, from + 1)

SlashDailySlash == <<"/", "d", "a", "i", "l", "y", "/">>

\* /(\d{4})\/(\d{2})\/(\d{2})\.md/ matched at the position k of s
dateRegexAt(s, k) ==
    /\ k + 12 <= Len(s)
    /\ IsDigits(SubSeq(s, k, k + 3)) /\ s[k + 4] = "/"
    /\ IsDigits(SubSeq(s, k + 5, k + 6)) /\ s[k + 7] = "/"
    /\ IsDigits(SubSeq(s, k + 8, k + 9))
    /\ SubSeq(s, k + 10, k + 12) = DotMd

\* LinkIndex.getSlugFromPath
getSlugFromPath(filePath) ==
    LET first == indexOf(filePath, SlashDailySlash, 1)
        next == IF first = 0 THEN 0 ELSE indexOf(filePath, SlashDailySlash, first + 7)
        \* filePath.split("/daily/")[1]
        parts == IF first = 0 THEN <<>>
                 ELSE SubSeq(filePath, first + 7,
                             IF next = 0 THEN Len(filePath) ELSE next - 1)
        hits == {k \in 1..Len(parts) : dateRegexAt(parts, k)}
        k == CHOOSE x \in hits : \A y \in hits : x <= y
    IN IF first # 0 /\ hits # {}
       THEN SubSeq(parts, k, k + 3) \o <<"-">> \o SubSeq(parts, k + 5, k + 6)
            \o <<"-">> \o SubSeq(parts, k + 8, k + 9)
       ELSE basename(filePath)

\* LinkIndex.resolveTargetSlug: the slug as an option
resolveTargetSlug(target, fs) ==
    LET r == resolveWikiLink(target, fs)
    IN IF r.exists /\ r.resolvedPath # None
       THEN Some(getSlugFromPath(r.resolvedPath[1]))
       ELSE None

\* the file of the file system with this path
fileAt(fs, path) == fs[CHOOSE i \in 1..Len(fs) : fs[i].path = path]

\* readFile throws for a file that cannot be read
readFileThrows(fs, path) == ~fileExists(fs, path) \/ ~fileAt(fs, path).readable

\* first pass of buildIndex: one entry per file that can be read
RECURSIVE firstPass(_, _, _)
firstPass(allFiles, fs, ix) ==
    IF allFiles = <<>> THEN ix
    ELSE LET filePath == Head(allFiles)
             slug == getSlugFromPath(filePath)
         IN IF readFileThrows(fs, filePath)
            THEN firstPass(Tail(allFiles), fs, ix)
            ELSE firstPass(Tail(allFiles), fs,
                     MapSet(ix, slug,
                            [slug          |-> slug,
                             filePath      |-> filePath,
                             outgoingLinks |-> extractWikiLinks(fileAt(fs, filePath).content),
                             incomingLinks |-> <<>>]))

\* the body of the inner loop of the second pass: one link of the entry i
addIncoming(ix, i, link, fs) ==
    LET targetSlug == resolveTargetSlug(link.target, fs)
    IN IF targetSlug # None /\ targetSlug[1] # <<>> /\ MapHas(ix, targetSlug[1])
       THEN LET p == MapPos(ix, targetSlug[1])
            IN [ix EXCEPT ![p].incomingLinks =
                    Append(@, [sourceSlug |-> ix[i].slug,
                               sourcePath |-> ix[i].filePath,
                               link       |-> link])]
       ELSE ix

\* second pass of buildIndex: the links j.. of the entries i..
RECURSIVE secondPass(_, _, _, _)
secondPass(ix, i, j, fs) ==
    IF i > Len(ix) THEN ix
    ELSE IF j > Len(ix[i].outgoingLinks) THEN secondPass(ix, i + 1, 1, fs)
    ELSE secondPass(addIncoming(ix, i, ix[i].outgoingLinks[j], fs), i, j + 1, fs)

\* LinkIndex.buildIndex: this.index.clear(), then the two passes
buildIndex(fs) ==
    secondPass(firstPass(LinkIndex_getAllMarkdownFiles(fs), fs, <<>>), 1, 1, fs)

\* entry.incomingLinks without the ?. and the || []: a TypeError for an id
\* that has no entry
getBacklinks_noGuard(ix, slug) ==
    IF MapHas(ix, slug) THEN MapGet(ix, slug).incomingLinks ELSE <<"TypeError">>

\* LinkIndex.getBacklinks and getOutgoingLinks
getBacklinks(ix, slug) ==
    IF MapHas(ix, slug) THEN MapGet(ix, slug).incomingLinks ELSE <<>>

getOutgoingLinks(ix, slug) ==
    IF MapHas(ix, slug) THEN MapGet(ix, slug).outgoingLinks ELSE <<>>

\* The object a method returned: buildIndex returns this.index, the Map
\* itself; getBacklinks and getOutgoingLinks return the array the entry
\* holds (an empty array is truthy, so `|| []` only replaces undefined), and
\* a new array literal for an unknown slug.
returnedObject(ix, call) ==
    IF call.op = "buildIndex" THEN [is |-> "index"]
    ELSE IF ~MapHas(ix, call.id) THEN [is |-> "literal"]
    ELSE [is   |-> IF call.op = "getBacklinks" THEN "incomingLinks"
                   ELSE "outgoingLinks",
          slug |-> call.id]

\* the index after the caller emptied the object it was handed:
\* returned.clear() on the Map, returned.length = 0 on an array
clearReturned(ix, ref) ==
    IF ref.is = "index" THEN <<>>
    ELSE IF ref.is = "incomingLinks"
    THEN [ix EXCEPT ![MapPos(ix, ref.slug)].incomingLinks = <<>>]
    ELSE IF ref.is = "outgoingLinks"
    THEN [ix EXCEPT ![MapPos(ix, ref.slug)].outgoingLinks = <<>>]
    ELSE ix

\* the index after the caller pushed x to the array it was handed
pushReturned(ix, ref, x) ==
    IF ref.is = "incomingLinks"
    THEN [ix EXCEPT ![MapPos(ix, ref.slug)].incomingLinks = Append(@, x)]
    ELSE IF ref.is = "outgoingLinks"
    THEN [ix EXCEPT ![MapPos(ix, ref.slug)].outgoingLinks = Append(@, x)]
    ELSE ix

\* the broken links among the links j.. of one entry
RECURSIVE entryBrokenLinks(_, _, _)
entryBrokenLinks(entry, j, fs) ==
    IF j > Len(entry.outgoingLinks) THEN <<>>
    ELSE LET link == entry.outgoingLinks[j]
             r == resolveWikiLink(link.target, fs)
         IN (IF ~r.exists
             THEN <<[sourceSlug  |-> entry.slug,
                     sourcePath  |-> entry.filePath,
                     link        |-> link,
                     suggestions |-> r.suggestions]>>
             ELSE <<>>)
            \o entryBrokenLinks(entry, j + 1, fs)

\* the links of one entry that have no entry to point to
RECURSIVE entryUnindexedLinks(_, _, _, _)
entryUnindexedLinks(ix, entry, j, fs) ==
    IF j > Len(entry.outgoingLinks) THEN <<>>
    ELSE LET link == entry.outgoingLinks[j]
             targetSlug == resolveTargetSlug(link.target, fs)
         IN (IF targetSlug = None \/ ~MapHas(ix, targetSlug[1])
             THEN <<[sourceSlug  |-> entry.slug,
                     sourcePath  |-> entry.filePath,
                     link        |-> link,
                     suggestions |-> Some(findSimilarNotes(link.target, fs))]>>
             ELSE <<>>)
            \o entryUnindexedLinks(ix, entry, j + 1, fs)

RECURSIVE unindexedLinksFrom(_, _, _)
unindexedLinksFrom(ix, i, fs) ==
    IF i > Len(ix) THEN <<>>
    ELSE entryUnindexedLinks(ix, ix[i], 1, fs) \o unindexedLinksFrom(ix, i + 1, fs)

\* a link counts as broken when the graph has no entry for its target
findBrokenLinks_notIndexed(ix, fs) == unindexedLinksFrom(ix, 1, fs)

\* LinkIndex.findBrokenLinks
RECURSIVE brokenLinksFrom(_, _, _)
brokenLinksFrom(ix, i, fs) ==
    IF i > Len(ix) THEN <<>>
    ELSE entryBrokenLinks(ix[i], 1, fs) \o brokenLinksFrom(ix, i + 1, fs)

findBrokenLinks(ix, fs) == brokenLinksFrom(ix, 1, fs)

RECURSIVE sumOutgoing(_, _)
sumOutgoing(ix, i) ==
    IF i > Len(ix) THEN 0
    ELSE Len(ix[i].outgoingLinks) + sumOutgoing(ix, i + 1)

RECURSIVE sumIncoming(_, _)
sumIncoming(ix, i) ==
    IF i > Len(ix) THEN 0
    ELSE Len(ix[i].incomingLinks) + sumIncoming(ix, i + 1)

\* validLinks counted as the backlinks recorded in the graph
getStatistics_validFromIncoming(ix, fs) ==
    [totalNotes  |-> Len(ix),
     totalLinks  |-> sumOutgoing(ix, 1),
     brokenLinks |-> Len(findBrokenLinks(ix, fs)),
     validLinks  |-> sumIncoming(ix, 1)]

\* LinkIndex.getStatistics
getStatistics(ix, fs) ==
    LET totalLinks == sumOutgoing(ix, 1)
        brokenLinksCount == Len(findBrokenLinks(ix, fs))
    IN [totalNotes  |-> Len(ix),
        totalLinks  |-> totalLinks,
        brokenLinks |-> brokenLinksCount,
        validLinks  |-> totalLinks - brokenLinksCount]

\* the graph is not cleared before the build
clear_keep(ix) == ix

\* this.index.clear()
clear(ix) == <<>>

\* LinkIndex.buildIndex called on an index that holds the graph ix
rebuildIndex(ix, fs) ==
    secondPass(firstPass(LinkIndex_getAllMarkdownFiles(fs), fs, clear(ix)), 1, 1, fs)

\* Array.prototype.sort((a, b) => b.count - a.count), which is stable
RECURSIVE insertByCount(_, _)
insertByCount(sorted, item) ==
    IF sorted = <<>> THEN <<item>>
    ELSE IF Head(sorted).count >= item.count
         THEN <<Head(sorted)>> \o insertByCount(Tail(sorted), item)
         ELSE <<item>> \o sorted

RECURSIVE sortByCount(_)
sortByCount(items) ==
    IF items = <<>> THEN <<>>
    ELSE insertByCount(sortByCount(SubSeq(items, 1, Len(items) - 1)), items[Len(items)])

\* LinkIndex.getMostLinkedNotes(limit), limit >= 0; linkCounts holds the
\* slugs in the order of the Map
getMostLinkedNotes(ix, limit) ==
    LET linkCounts == Tuple([i \in 1..Len(ix) |->
                          [slug |-> ix[i].slug, count |-> Len(ix[i].incomingLinks)]])
        ranked == sortByCount(linkCounts)
    IN SubSeq(ranked, 1, IF Len(ranked) < limit THEN Len(ranked) ELSE limit)

\* LinkIndex.getNoteTitleFromPath: the title as an option; the notes of the
\* corpus carry no frontmatter title
getNoteTitleFromPath(fs, filePath) == None

\* every edge is taken for a new one
edgeIsNew_always(addedEdges, edgeKey) == TRUE

\* !addedEdges.has(edgeKey)
edgeIsNew(addedEdges, edgeKey) == edgeKey \notin addedEdges

\* the inner loop of exportGraph: the edges of the links j.. of one entry
\* whose target has an entry, before the test on addedEdges
RECURSIVE entryEdges(_, _, _, _)
entryEdges(ix, entry, j, fs) ==
    IF j > Len(entry.outgoingLinks) THEN <<>>
    ELSE LET edgeTo(targetSlug) ==
                 IF targetSlug # None /\ targetSlug[1] # <<>> /\ MapHas(ix, targetSlug[1])
                 THEN <<[source |-> entry.slug, target |-> targetSlug[1],
                         type |-> "wiki"]>>
                 ELSE <<>>
         IN edgeTo(resolveTargetSlug(entry.outgoingLinks[j].target, fs))
            \o entryEdges(ix, entry, j + 1, fs)

\* the outer loop of exportGraph: the same for the entries i..
RECURSIVE graphEdges(_, _, _)
graphEdges(ix, i, fs) ==
    IF i > Len(ix) THEN <<>>
    ELSE entryEdges(ix, ix[i], 1, fs) \o graphEdges(ix, i + 1, fs)

\* the test on addedEdges, for the edges k.. of the two loops: an edge is
\* pushed when its key is new; the key of an edge that is not pushed is in
\* addedEdges already
RECURSIVE pushEdges(_, _, _)
pushEdges(candidates, k, addedEdges) ==
    IF k > Len(candidates) THEN <<>>
    ELSE LET \* `${slug}->${targetSlug}`
             edgeKey == candidates[k].source \o <<"-", ">">> \o candidates[k].target
         IN (IF edgeIsNew(addedEdges, edgeKey) THEN <<candidates[k]>> ELSE <<>>)
            \o pushEdges(candidates, k + 1, addedEdges \cup {edgeKey})

\* LinkIndex.exportGraph
exportGraph(ix, fs) ==
    [nodes |-> Tuple([i \in 1..Len(ix) |->
                  LET label(title) == IF title # None THEN title[1] ELSE ix[i].slug
                  IN [id    |-> ix[i].slug,
                      label |-> label(getNoteTitleFromPath(fs, ix[i].filePath)),
                      path  |-> ix[i].filePath]]),
     edges |-> pushEdges(graphEdges(ix, 1, fs), 1, {})]

(***************************************************************************)
(* index.ts: the cache file                                                *)
(*                                                                         *)
(* A cache file is None when absent, else Some(cacheData): the value       *)
(* JSON.parse gives for its content.  json is FALSE for a content that     *)
(* JSON.parse rejects.  timestamp is the time new Date(...).getTime()      *)
(* gives, None for NaN.  index is None when it is no array, else the       *)
(* elements: [pair |-> TRUE, entry |-> e] for [slug, entry] and            *)
(* [pair |-> FALSE] for an element that cannot be destructured.  An entry  *)
(* of the wrong shape has the field slug alone.  JSON.stringify and        *)
(* JSON.parse keep strings, numbers, arrays and the defined fields of the  *)
(* entries as they are; toISOString and new Date keep the millisecond.     *)
(***************************************************************************)
Version == "1.0.0"

\* const maxAge = 60 * 60 * 1000
MaxAge == 3600000

\* LinkIndex.saveCache: the content written
saveCache(ix, now) ==
    [json      |-> TRUE,
     version   |-> Version,
     timestamp |-> Some(now),
     index     |-> Some(Tuple([i \in 1..Len(ix) |-> [pair |-> TRUE, entry |-> ix[i]]]))]

\* the for loop of loadCache; threw when an element cannot be destructured
RECURSIVE loadEntries(_, _)
loadEntries(ix, elements) ==
    IF elements = <<>> THEN [threw |-> FALSE, index |-> ix]
    ELSE IF ~Head(elements).pair THEN [threw |-> TRUE, index |-> ix]
    ELSE loadEntries(MapSet(ix, Head(elements).entry.slug, Head(elements).entry),
                     Tail(elements))

\* LinkIndex.loadCache on an index that holds the graph ix: the value
\* returned and the graph the index holds afterwards
loadCache(ix, file) ==
    IF file = None THEN [loaded |-> FALSE, index |-> ix]
    ELSE LET cacheData == file[1]
         IN IF ~cacheData.json THEN [loaded |-> FALSE, index |-> ix]
            ELSE IF cacheData.version # Version THEN [loaded |-> FALSE, index |-> ix]
            ELSE IF cacheData.index = None THEN [loaded |-> FALSE, index |-> clear(ix)]
            ELSE LET r == loadEntries(clear(ix), cacheData.index[1])
                 IN [loaded |-> ~r.threw, index |-> r.index]

\* the file count is not compared
isCacheValid_noCount(file, now, fs) ==
    /\ file # None
    /\ file[1].json
    /\ ~(file[1].timestamp # None /\ now - file[1].timestamp[1] > MaxAge)
    /\ file[1].index # None

\* LinkIndex.isCacheValid; with a NaN cacheTime the comparison
\* now - cacheTime > maxAge is false
isCacheValid(file, now, fs) ==
    /\ file # None
    /\ file[1].json
    /\ ~(file[1].timestamp # None /\ now - file[1].timestamp[1] > MaxAge)
    /\ file[1].index # None
    /\ Len(LinkIndex_getAllMarkdownFiles(fs)) = Len(file[1].index[1])

\* loadOrBuildLinkIndex(enkiduRoot, cachePath); cachePath is None when it is
\* omitted.  The result: the graph of the index returned and where it came
\* from.
loadOrBuildLinkIndex(fs, cachePath, file, now) ==
    LET load == IF cachePath # None /\ isCacheValid(file, now, fs)
                THEN loadCache(<<>>, file)
                ELSE [loaded |-> FALSE, index |-> <<>>]
    IN IF load.loaded
       THEN [index |-> load.index, from |-> "cache"]
       ELSE [index |-> rebuildIndex(load.index, fs), from |-> "build"]

\* the cache file is never written
savedByLoadOrBuild_never(result, cachePath, file, now) == file

\* the cache file after loadOrBuildLinkIndex has returned this result:
\* if (cachePath) await index.saveCache(cachePath), after a build
savedByLoadOrBuild(result, cachePath, file, now) ==
    IF result.from = "build" /\ cachePath # None
    THEN Some(saveCache(result.index, now))
    ELSE file

\* findBrokenLinks on a graph that may hold entries of the wrong shape: the
\* loop over entry.outgoingLinks throws for such an entry
findBrokenLinksOrThrow(ix, fs) ==
    IF \E i \in 1..Len(ix) : "outgoingLinks" \notin DOMAIN ix[i] THEN [threw |-> TRUE]
    ELSE [threw |-> FALSE, value |-> findBrokenLinks(ix, fs)]

(***************************************************************************)
(* index.ts: the lifecycle of a LinkIndex.  Empty: constructed, the Map    *)
(* holds no graph.  Building: inside buildIndex, from this.index.clear()   *)
(* to its return.  Built: the Map holds a graph.                           *)
(***************************************************************************)
\* buildIndex goes to Built at once
buildHops_direct(from) == <<<<from, "Built">>>>

\* the transitions of buildIndex: no await lies between clear() and return
buildHops(from) == <<<<from, "Building">>, <<"Building", "Built">>>>

\* the state after loadCache: Built when the entries of the file were set;
\* Empty when clear() ran and the loop over cacheData.index threw; else as
\* before
loadCacheState(from, file) ==
    IF loadCache(<<>>, file).loaded THEN "Built"
    ELSE IF file # None /\ file[1].json /\ file[1].version = Version THEN "Empty"
    ELSE from

\* the transitions of loadCache
loadCacheHops(from, file) ==
    IF loadCacheState(from, file) = from THEN <<>>
    ELSE <<<<from, loadCacheState(from, file)>>>>

(***************************************************************************)
(* note/frontmatter.ts.  gray-matter keeps the front matter of a note in   *)
(* the text of its file; the model keeps it beside the body, in the field  *)
(* matter of the file, and a file without the field has no front matter.   *)
(***************************************************************************)
NoMatter == [throws |-> FALSE, title |-> None]

\* parseFrontmatter(readFile(path)).frontmatter, or the error matter() throws
parseFrontmatter(file) ==
    IF "matter" \in DOMAIN file THEN file.matter ELSE NoMatter

(***************************************************************************)
(* sync/link-converter.ts                                                  *)
(***************************************************************************)
\* the parts of a path between its separators
RECURSIVE segments(_)
segments(p) ==
    LET sl == {i \in 1..Len(p) : p[i] = "/"}
    IN IF sl = {} THEN <<p>>
       ELSE LET k == CHOOSE x \in sl : \A y \in sl : x <= y
            IN <<SubSeq(p, 1, k - 1)>> \o segments(SubSeq(p, k + 1, Len(p)))

\* Array.prototype.join(sep)
RECURSIVE joinWith(_, _)
joinWith(parts, sep) ==
    IF parts = <<>> THEN <<>>
    ELSE IF Len(parts) = 1 THEN parts[1]
    ELSE parts[1] \o sep \o joinWith(Tail(parts), sep)

\* path.dirname of a path with a directory part
dirname(p) == SubSeq(p, 1, lastSlash(p, Len(p)) - 1)

\* path.normalize on the segments: "." and "" are dropped, ".." takes the
\* segment before it away
RECURSIVE normalizeSegments(_, _)
normalizeSegments(done, rest) ==
    IF rest = <<>> THEN done
    ELSE IF Head(rest) \in {<<>>, <<".">>} THEN normalizeSegments(done, Tail(rest))
    ELSE IF Head(rest) = <<".", ".">> /\ done # <<>> /\ done[Len(done)] # <<".", ".">>
    THEN normalizeSegments(SubSeq(done, 1, Len(done) - 1), Tail(rest))
    ELSE normalizeSegments(Append(done, Head(rest)), Tail(rest))

\* path.join(a, b), normalized; a leading separator is kept
pathJoin(a, b) ==
    LET whole == a \o <<"/">> \o b
        body == joinWith(normalizeSegments(<<>>, segments(whole)), <<"/">>)
    IN IF a # <<>> /\ a[1] = "/" THEN <<"/">> \o body
       ELSE IF a = <<>> THEN joinWith(normalizeSegments(<<>>, segments(b)), <<"/">>)
       ELSE body

\* the number of leading segments two paths share
RECURSIVE commonPrefix(_, _)
commonPrefix(a, b) ==
    IF a = <<>> \/ b = <<>> \/ Head(a) # Head(b) THEN 0
    ELSE 1 + commonPrefix(Tail(a), Tail(b))

\* path.relative(from, to) of two absolute paths
relative(from, to) ==
    LET f == normalizeSegments(<<>>, segments(from))
        t == normalizeSegments(<<>>, segments(to))
        c == commonPrefix(f, t)
    IN joinWith([i \in 1..(Len(f) - c) |-> <<".", ".">>] \o SubSeq(t, c + 1, Len(t)),
                <<"/">>)

upperChar(c) ==
    IF \E i \in 1..26 : LowerCase[i] = c
    THEN UpperCase[CHOOSE i \in 1..26 : LowerCase[i] = c]
    ELSE c

\* word.charAt(0).toUpperCase() + word.slice(1)
capitalize(word) ==
    IF word = <<>> THEN <<>> ELSE <<upperChar(word[1])>> \o Tail(word)

\* filename.split("-")
RECURSIVE splitHyphen(_)
splitHyphen(s) ==
    LET hy == {i \in 1..Len(s) : s[i] = "-"}
    IN IF hy = {} THEN <<s>>
       ELSE LET k == CHOOSE x \in hy : \A y \in hy : x <= y
            IN <<SubSeq(s, 1, k - 1)>> \o splitHyphen(SubSeq(s, k + 1, Len(s)))

\* the file name without its extension, kebab-case to Title Case
titleCase(filename) ==
    LET words == splitHyphen(filename)
    IN joinWith([i \in 1..Len(words) |-> capitalize(words[i])], <<" ">>)

\* the error of readFile or parseFrontmatter is not caught
getNoteTitle_noCatch(fs, filePath) ==
    IF readFileThrows(fs, filePath) \/ parseFrontmatter(fileAt(fs, filePath)).throws
    THEN <<"Error">>
    ELSE LET frontmatter == parseFrontmatter(fileAt(fs, filePath))
         IN IF frontmatter.title # None /\ frontmatter.title[1] # <<>>
            THEN frontmatter.title[1]
            ELSE titleCase(basename(filePath))

\* getNoteTitle: the title of the front matter if it is truthy, else, and
\* when reading or parsing throws, the title made of the file name
getNoteTitle(fs, filePath) ==
    IF readFileThrows(fs, filePath) \/ parseFrontmatter(fileAt(fs, filePath)).throws
    THEN titleCase(basename(filePath))
    ELSE LET frontmatter == parseFrontmatter(fileAt(fs, filePath))
         IN IF frontmatter.title # None /\ frontmatter.title[1] # <<>>
            THEN frontmatter.title[1]
            ELSE titleCase(basename(filePath))

\* brokenLinkStrategy = "keep", basePath = "", useAbsolutePaths = false
DefaultOptions ==
    [brokenLinkStrategy |-> "keep", basePath |-> <<>>, useAbsolutePaths |-> FALSE]

\* link.displayText || other: undefined and "" are falsy
displayTextOr(link, other) ==
    IF link.displayText # None /\ link.displayText[1] # <<>>
    THEN link.displayText[1] ELSE other

\* the strategy "text" keeps the raw literal
brokenLinkText_keepOnly(link, brokenLinkStrategy) ==
    IF brokenLinkStrategy = "remove" THEN <<>> ELSE link.raw

\* the switch of convertSingleWikiLink over brokenLinkStrategy
brokenLinkText(link, brokenLinkStrategy) ==
    CASE brokenLinkStrategy = "text" -> displayTextOr(link, link.target)
      [] brokenLinkStrategy = "remove" -> <<>>
      [] OTHER -> link.raw

convertSingleWikiLink(link, sourceFilePath, fs, options) ==
    LET res == resolveWikiLink(link.target, fs)
    IN IF ~res.exists \/ res.resolvedPath = None
       THEN brokenLinkText(link, options.brokenLinkStrategy)
       ELSE LET path == res.resolvedPath[1]
                linkText == displayTextOr(link, getNoteTitle(fs, path))
                linkPath == IF options.useAbsolutePaths
                            THEN pathJoin(options.basePath, relative(Root, path))
                            ELSE relative(dirname(sourceFilePath), path)
            IN <<"[">> \o linkText \o <<"]", "(">>
               \o (IF endsWith(linkPath, DotMd) THEN linkPath ELSE linkPath \o DotMd)
               \o <<")">>

\* the for loop of replaceWikiLinks with the replacer of
\* convertWikiLinksToMarkdown
RECURSIVE convertEach(_, _, _, _, _)
convertEach(result, sortedLinks, sourceFilePath, fs, options) ==
    IF sortedLinks = <<>> THEN result
    ELSE LET link == Head(sortedLinks)
         IN convertEach(sliceClamped(result, 0, link.startIndex)
                            \o convertSingleWikiLink(link, sourceFilePath, fs, options)
                            \o sliceClamped(result, link.endIndex, Len(result)),
                        Tail(sortedLinks), sourceFilePath, fs, options)

convertWikiLinksToMarkdown(content, sourceFilePath, fs, options) ==
    convertEach(content, sortLinks(extractWikiLinks(content)), sourceFilePath, fs, options)

\* the first position at or after from where s holds c; Len(s) + 1 if none
RECURSIVE firstOf(_, _, _)
firstOf(s, c, from) ==
    IF from > Len(s) \/ s[from] = c THEN from ELSE firstOf(s, c, from + 1)

\* /\[([^\]]+)\]\(([^)]+)\)/ matched at the 1-based position i of s: group 1
\* ends at the first "]", group 2 at the first ")"; each has a character
markdownLinkAt(s, i) ==
    LET close == firstOf(s, "]", i + 1)
        paren == firstOf(s, ")", close + 2)
    IN IF /\ i <= Len(s) /\ s[i] = "["
          /\ close > i + 1 /\ close + 1 <= Len(s) /\ s[close + 1] = "("
          /\ paren > close + 2 /\ paren <= Len(s)
       THEN Some([text |-> SubSeq(s, i + 1, close - 1),
                  path |-> SubSeq(s, close + 2, paren - 1),
                  end  |-> paren])
       ELSE None

Http == <<"h", "t", "t", "p", ":", "/", "/">>
Https == <<"h", "t", "t", "p", "s", ":", "/", "/">>

\* the replacer of convertMarkdownLinksToWiki
markdownLinkToWiki(match, label, path, sourceFilePath) ==
    IF startsWith(path, Http) \/ startsWith(path, Https) \/ startsWith(path, <<"#">>)
    THEN match
    ELSE LET absolutePath == pathJoin(dirname(sourceFilePath), path)
             slug == basename(absolutePath)
         IN <<"[", "[">> \o slug \o <<"|">> \o label \o <<"]", "]">>

\* content.replace(markdownLinkRegex, replacer) from the position i on
RECURSIVE replaceMarkdownLinks(_, _, _)
replaceMarkdownLinks(s, i, sourceFilePath) ==
    IF i > Len(s) THEN <<>>
    ELSE LET m == markdownLinkAt(s, i)
         IN IF m = None
            THEN <<s[i]>> \o replaceMarkdownLinks(s, i + 1, sourceFilePath)
            ELSE markdownLinkToWiki(SubSeq(s, i, m[1].end), m[1].text, m[1].path,
                                    sourceFilePath)
                 \o replaceMarkdownLinks(s, m[1].end + 1, sourceFilePath)

convertMarkdownLinksToWiki(content, sourceFilePath) ==
    replaceMarkdownLinks(content, 1, sourceFilePath)

(***************************************************************************)
(* note/manager.ts: NoteManager.  The front matter of a note has the       *)
(* fields title, tags, category, type and updated (a time in               *)
(* milliseconds); stringifyFrontmatter puts it back beside the body.       *)
(***************************************************************************)
\* writeFile(path, stringifyFrontmatter(frontmatter, content)): a known path
\* keeps its place in the listing, a new one comes last
writeFile(fs, path, frontmatter, content) ==
    LET file == [path |-> path, content |-> content, readable |-> TRUE,
                 matter |-> frontmatter]
    IN IF fileExists(fs, path)
       THEN Tuple([i \in 1..Len(fs) |-> IF fs[i].path = path THEN file ELSE fs[i]])
       ELSE Append(fs, file)

\* deleteFile(path): unlink if it exists
deleteFile(fs, path) == SelectSeq(fs, LAMBDA f : f.path # path)

\* NoteManager.findNoteBySlug: the files of notes, then of blog; the first
\* whose name without the extension is the slug
findNoteBySlug(fs, slug) ==
    LET allFiles == listFilesRecursive(fs, NotesDir) \o listFilesRecursive(fs, BlogDir)
    IN find(allFiles, {i \in 1..Len(allFiles) : basename(allFiles[i]) = slug})

\* NoteManager.readNote: the note, or the error thrown
readNote(fs, slugOrPath) ==
    LET isPath == (\E i \in 1..Len(slugOrPath) : slugOrPath[i] = "/")
                      \/ endsWith(slugOrPath, DotMd)
        parsed(notePath, file) ==
            IF ~file.readable \/ parseFrontmatter(file).throws THEN [threw |-> TRUE]
            ELSE [threw       |-> FALSE,
                  slug        |-> basename(notePath),
                  filePath    |-> notePath,
                  frontmatter |-> parseFrontmatter(file),
                  content     |-> file.content]
        at(notePath) ==
            IF notePath = None \/ ~fileExists(fs, notePath[1]) THEN [threw |-> TRUE]
            ELSE parsed(notePath[1], fileAt(fs, notePath[1]))
    IN at(IF isPath
          THEN Some(IF startsWith(slugOrPath, <<"/">>) THEN slugOrPath
                    ELSE join(Root, slugOrPath))
          ELSE findNoteBySlug(fs, slugOrPath))

\* NoteManager.updateNote with updates.frontmatter (None if not given) and
\* updates.content (None if undefined): the file system afterwards and the
\* note returned, or the error of readNote
updateNote(fs, slugOrPath, frontmatter, content, now) ==
    LET write(note, updatedFrontmatter, updatedContent) ==
            [threw |-> FALSE,
             fs    |-> writeFile(fs, note.filePath, updatedFrontmatter, updatedContent),
             note  |-> [note EXCEPT !.frontmatter = updatedFrontmatter,
                                    !.content = updatedContent]]
        update(note) ==
            IF note.threw THEN [threw |-> TRUE, fs |-> fs]
            ELSE write(note,
                       IF frontmatter = None THEN note.frontmatter
                       ELSE [updated |-> now] @@ frontmatter[1] @@ note.frontmatter,
                       IF content = None THEN note.content ELSE content[1])
    IN update(readNote(fs, slugOrPath))

\* notes.sort((a, b) => updated(b) - updated(a)), which is stable
RECURSIVE insertByUpdated(_, _)
insertByUpdated(sorted, note) ==
    IF sorted = <<>> THEN <<note>>
    ELSE IF Head(sorted).frontmatter.updated >= note.frontmatter.updated
         THEN <<Head(sorted)>> \o insertByUpdated(Tail(sorted), note)
         ELSE <<note>> \o sorted

RECURSIVE sortByUpdated(_)
sortByUpdated(notes) ==
    IF notes = <<>> THEN <<>>
    ELSE insertByUpdated(sortByUpdated(SubSeq(notes, 1, Len(notes) - 1)),
                         notes[Len(notes)])

\* the loop of listNotes over the files of the search path: a note that
\* cannot be read, or whose tags cannot be searched, is skipped
RECURSIVE readListed(_, _, _)
readListed(fs, listed, tag) ==
    IF listed = <<>> THEN <<>>
    ELSE LET kept(note) ==
                IF \/ note.threw
                   \/ tag # None /\ "tags" \notin DOMAIN note.frontmatter
                   \/ tag # None /\ tag[1] \notin Range(note.frontmatter.tags)
                THEN <<>> ELSE <<note>>
         IN kept(readNote(fs, Head(listed))) \o readListed(fs, Tail(listed), tag)

\* NoteManager.listNotes(options) with options.type, category, tag (None if
\* not given) and limit (0 if not given)
listNotes(fs, options) ==
    LET searchPath == IF options.type = Some("blog") THEN BlogDir
                      ELSE IF options.type = Some("daily") THEN DailyDir
                      ELSE IF options.category # None
                      THEN join(NotesDir, options.category[1])
                      ELSE NotesDir
        limited(notes) ==
            IF options.limit # 0 /\ options.limit < Len(notes)
            THEN SubSeq(notes, 1, options.limit)
            ELSE notes
    IN limited(sortByUpdated(readListed(fs, listFilesRecursive(fs, searchPath),
                                        options.tag)))

NoOptions == [type |-> None, category |-> None, tag |-> None, limit |-> 0]

\* updatedTags = tags.map(t => t === oldTag ? newTag : t)
mapTags(tags, oldTag, newTag) ==
    Tuple([i \in 1..Len(tags) |-> IF tags[i] = oldTag THEN newTag ELSE tags[i]])

\* the for loop of renameTag: each listed note is updated by its slug
RECURSIVE renameEach(_, _, _, _, _, _)
renameEach(fs, notes, oldTag, newTag, now, count) ==
    IF notes = <<>> THEN [threw |-> FALSE, fs |-> fs, value |-> count]
    ELSE LET next(u) ==
                IF u.threw THEN [threw |-> TRUE, fs |-> u.fs]
                ELSE renameEach(u.fs, Tail(notes), oldTag, newTag, now, count + 1)
         IN next(updateNote(fs, Head(notes).slug,
                            Some([tags |-> mapTags(Head(notes).frontmatter.tags,
                                                   oldTag, newTag)]),
                            None, now))

\* NoteManager.renameTag
renameTag(fs, oldTag, newTag, now) ==
    renameEach(fs, listNotes(fs, [NoOptions EXCEPT !.tag = Some(oldTag)]),
               oldTag, newTag, now, 0)

\* NoteManager.moveNoteToCategory
moveNoteToCategory(fs, slugOrPath, newCategory, now) ==
    LET moved(note, updated, newPath, raw) ==
            [threw |-> FALSE,
             fs    |-> deleteFile(writeFile(updated.fs, newPath, raw.matter, raw.content),
                                  note.filePath),
             note  |-> [updated.note EXCEPT !.filePath = newPath]]
        move(note, updated) ==
            IF note.threw \/ updated.threw THEN [threw |-> TRUE, fs |-> fs]
            ELSE IF note.frontmatter.type = "note"
            THEN moved(note, updated,
                       join(join(NotesDir, newCategory),
                            basename(note.filePath) \o DotMd),
                       fileAt(updated.fs, note.filePath))
            ELSE [threw |-> FALSE, fs |-> updated.fs, note |-> updated.note]
    IN move(readNote(fs, slugOrPath),
            updateNote(fs, slugOrPath, Some([category |-> newCategory]), None, now))

(***************************************************************************)
(* Parser inputs                                                           *)
(***************************************************************************)
MaxTokens == 4
MaxArgLen == 2

Tokens == {<<"[", "[">>, <<"]", "]">>, <<"[">>, <<"]">>, <<"|">>, <<"a">>,
           <<" ">>, <<"\n">>, <<"[", "[", "a", "]", "]">>}

RECURSIVE TokenTexts(_)
TokenTexts(n) ==
    IF n = 0 THEN {<<>>}
    ELSE LET prev == TokenTexts(n - 1)
         IN prev \cup {p \o t : p \in prev, t \in Tokens}

Texts == TokenTexts(MaxTokens)

ArgChars == {"a", " ", "[", "]", "|", "\n"}
ArgStrings == UNION {[1..n -> ArgChars] : n \in 0..MaxArgLen}

(***************************************************************************)
(* Parser specification                                                    *)
(***************************************************************************)
NoArgs == [target |-> <<>>, displayText |-> None, given |-> FALSE]

NoCall == [op |-> "none"]

\* the variables of the calls that have not been made
InitMore ==
    /\ presult = NoCall
    /\ cache = None
    /\ clock = 0
    /\ hops = <<>>
    /\ called = NoCall
    /\ origin = "none"

InitParser ==
    /\ text = <<>>
    /\ args = NoArgs
    /\ links = <<>>
    /\ pstep = "idle"
    /\ files = <<>>
    /\ rtarget = <<>>
    /\ resolved = None
    /\ fsLog = <<>>
    /\ rstep = "idle"
    /\ index = <<>>
    /\ istate = "Empty"
    /\ fresh = FALSE
    /\ broken = None
    /\ stats = None
    /\ InitMore

Input ==
    /\ pstep = "idle"
    /\ \E t \in Texts : text' = t
    /\ pstep' = "input"
    /\ UNCHANGED <<args, links, files, resolverVars, indexVars, moreVars>>

CreateWikiLink ==
    /\ pstep = "idle"
    /\ \E target \in ArgStrings, displayText \in {None} \cup {Some(d) : d \in ArgStrings} :
        /\ text' = createWikiLink(target, displayText)
        /\ args' = [target |-> target, displayText |-> displayText, given |-> TRUE]
    /\ pstep' = "created"
    /\ UNCHANGED <<links, files, resolverVars, indexVars, moreVars>>

ExtractWikiLinks ==
    /\ pstep \in {"input", "created"}
    /\ links' = extractWikiLinks(text)
    /\ pstep' = "extracted"
    /\ UNCHANGED <<text, args, files, resolverVars, indexVars, moreVars>>

NextParser == Input \/ CreateWikiLink \/ ExtractWikiLinks

SpecParser == InitParser /\ [][NextParser]_vars

(***************************************************************************)
(* Rewriter specification: parseWikiLink and replaceWikiLinks              *)
(***************************************************************************)
MaxRewriteTokens == 3

RewriteTexts == TokenTexts(MaxRewriteTokens)

ParseWikiLink ==
    /\ pstep = "idle"
    /\ \E linkText \in RewriteTexts :
        /\ text' = linkText
        /\ presult' = [op |-> "parseWikiLink", value |-> parseWikiLink(linkText)]
    /\ pstep' = "parsed"
    /\ UNCHANGED <<args, links, files, resolverVars, indexVars, cacheVars>>

ReplaceWikiLinks ==
    /\ pstep = "idle"
    /\ \E content \in RewriteTexts, replacer \in Replacers :
        /\ text' = content
        /\ presult' = [op |-> "replaceWikiLinks", replacer |-> replacer,
                       value |-> replaceWikiLinks(content, replacer)]
    /\ pstep' = "replaced"
    /\ UNCHANGED <<args, links, files, resolverVars, indexVars, cacheVars>>

NextRewrite == ParseWikiLink \/ ReplaceWikiLinks

SpecRewrite == InitParser /\ [][NextRewrite]_vars

(***************************************************************************)
(* Resolver inputs                                                         *)
(***************************************************************************)
MaxResolverFiles == 7

File(dir, name, content) ==
    [path |-> join(dir, name \o DotMd), content |-> content, readable |-> TRUE]

Day15 == join(join(<<"2", "0", "2", "6">>, <<"0", "2">>), <<"1", "5">>)

ResolverNotes == {File(NotesDir, <<"n", "o", "t", "e">>, <<>>),
                  File(NotesDir, <<"a", "-", "b">>, <<>>),
                  File(NotesDir, <<"A", " ", "b">>, <<>>),
                  File(NotesDir, <<"2", "0", "2", "6", "-", "0", "2", "-", "1", "5">>, <<>>)}
ResolverBlog == {File(BlogDir, <<"N", "o", "t", "e">>, <<>>),
                 File(BlogDir, <<"n", "o", "t", "e">>, <<>>),
                 File(BlogDir, <<"a", "b", "c", "d", "e", "f", "g", "h">>, <<>>)}
ResolverDaily == {File(DailyDir, Day15, <<>>)}

ResolverTargets == {<<"N", "o", "t", "e">>, <<"N", "O", "T", "E">>,
                    <<"a", " ", "b">>, <<"a", "_", "b">>,
                    <<"n", "o", "p", "e">>,
                    <<"2", "0", "2", "6", "-", "0", "2", "-", "1", "5">>,
                    <<"2", "0", "2", "6", "/", "0", "2", "/", "1", "5">>,
                    <<"2", "0", "2", "6", "0", "2", "1", "5">>,
                    <<"2", "0", "2", "6", "-", "0", "2", "-", "1", "6">>}

\* the listings of the files of one directory: every subset in every order
Listings(pool) ==
    UNION {{f \in [1..n -> pool] : \A i, j \in 1..n : i # j => f[i] # f[j]} :
           n \in 0..Cardinality(pool)}

(***************************************************************************)
(* Resolver specification                                                  *)
(***************************************************************************)
InitResolver ==
    /\ text = <<>>
    /\ args = NoArgs
    /\ links = <<>>
    /\ pstep = "idle"
    /\ \E n \in Listings(ResolverNotes), b \in Listings(ResolverBlog),
          d \in Listings(ResolverDaily) :
        /\ Len(n) + Len(b) + Len(d) <= MaxResolverFiles
        /\ files = n \o b \o d
    /\ rtarget = <<>>
    /\ resolved = None
    /\ fsLog = <<>>
    /\ rstep = "idle"
    /\ index = <<>>
    /\ istate = "Empty"
    /\ fresh = FALSE
    /\ broken = None
    /\ stats = None
    /\ InitMore

ResolveWikiLink ==
    /\ rstep = "idle"
    /\ \E target \in ResolverTargets :
        /\ rtarget' = target
        /\ resolved' = Some(resolveWikiLink(target, files))
    /\ fsLog' = resolved'[1].ops
    /\ rstep' = "resolved"
    /\ UNCHANGED <<parserVars, files, indexVars, moreVars>>

NextResolver == ResolveWikiLink

SpecResolver == InitResolver /\ [][NextResolver]_vars

(***************************************************************************)
(* Index inputs                                                            *)
(***************************************************************************)
MaxIndexFiles == 3

Unreadable(f) == [f EXCEPT !.readable = FALSE]

\* the contents of the notes: one link to the stem a; a broken link, a link
\* with another case and a display text, and a compact date on a second line;
\* one link to a date
LinkA == <<"[", "[", "a", "]", "]">>
LinkMany == <<"[", "[", "z", "z", "]", "]", " ",
              "[", "[", "A", "|", "x", "]", "]", "\n",
              "[", "[", "2", "0", "2", "6", "0", "2", "1", "5", "]", "]">>
LinkDate == <<"[", "[", "2", "0", "2", "6", "-", "0", "2", "-", "1", "5", "]", "]">>

\* one file with each of the contents
Variants(dir, name, contents) == {File(dir, name, c) : c \in contents}

\* the files of each directory, each with the variants it can take
IndexNotes ==
    {Variants(NotesDir, <<"a">>, {<<>>, LinkA, LinkMany})
        \cup {Unreadable(File(NotesDir, <<"a">>, <<>>))},
     Variants(NotesDir, <<"2", "0", "2", "6", "-", "0", "2", "-", "1", "5">>,
              {<<>>, LinkDate})}
IndexBlog ==
    {Variants(BlogDir, <<"a">>, {<<>>, LinkA})
        \cup {Unreadable(File(BlogDir, <<"a">>, <<>>))}}
IndexDaily ==
    {Variants(DailyDir, Day15, {<<>>, LinkDate})
        \cup {Unreadable(File(DailyDir, Day15, <<>>))}}

\* the listings of one directory: every subset of its files in every order,
\* every file in every variant
VariantListings(pools) ==
    UNION {{f \in [1..n -> UNION pools] :
                \A i, j \in 1..n : i # j => f[i].path # f[j].path} :
           n \in 0..Cardinality(pools)}

(***************************************************************************)
(* Index specification                                                     *)
(***************************************************************************)
InitIndex ==
    /\ text = <<>>
    /\ args = NoArgs
    /\ links = <<>>
    /\ pstep = "idle"
    /\ \E n \in VariantListings(IndexNotes),
          b \in VariantListings(IndexBlog),
          d \in VariantListings(IndexDaily) :
        /\ Len(n) + Len(b) + Len(d) <= MaxIndexFiles
        /\ files = n \o b \o d
    /\ rtarget = <<>>
    /\ resolved = None
    /\ fsLog = <<>>
    /\ rstep = "idle"
    /\ index = <<>>
    /\ istate = "Empty"
    /\ fresh = FALSE
    /\ broken = None
    /\ stats = None
    /\ InitMore

\* await index.buildIndex()
BuildIndex ==
    /\ index' = buildIndex(files)
    /\ istate' = "Built"
    /\ fresh' = TRUE
    /\ broken' = None
    /\ stats' = None
    /\ UNCHANGED <<parserVars, files, resolverVars, moreVars>>

\* index.findBrokenLinks()
FindBrokenLinks ==
    /\ broken = None
    /\ broken' = Some(findBrokenLinks(index, files))
    /\ UNCHANGED <<parserVars, files, resolverVars, index, istate, fresh, stats, moreVars>>

\* index.getStatistics()
GetStatistics ==
    /\ stats = None
    /\ stats' = Some(getStatistics(index, files))
    /\ UNCHANGED <<parserVars, files, resolverVars, index, istate, fresh, broken, moreVars>>

\* a note is deleted from the corpus; the index is not told
DeleteFile ==
    /\ \E i \in 1..Len(files) :
        files' = SubSeq(files, 1, i - 1) \o SubSeq(files, i + 1, Len(files))
    /\ fresh' = FALSE
    /\ broken' = None
    /\ stats' = None
    /\ UNCHANGED <<parserVars, resolverVars, index, istate, moreVars>>

NextIndex == BuildIndex \/ FindBrokenLinks \/ GetStatistics \/ DeleteFile

SpecIndex == InitIndex /\ [][NextIndex]_vars

(***************************************************************************)
(* Lifecycle inputs                                                        *)
(***************************************************************************)
MaxLimit == 2

\* two references to the stem b, the second one in another case
LinkTwice == <<"[", "[", "b", "]", "]", " ", "[", "[", "B", "]", "]">>

LifecycleIds == {<<"a">>, <<"z", "z">>}

\* the contents a cache file can be given from outside: unparsable, of
\* another version, without an entry list
DamagedCaches(file) ==
    {[json |-> FALSE]}
    \cup (IF file # None /\ file[1].json
          THEN {[file[1] EXCEPT !.version = "0.9.0"],
                [file[1] EXCEPT !.index = None]}
          ELSE {})

(***************************************************************************)
(* Lifecycle specification: the methods of one LinkIndex in any order      *)
(***************************************************************************)
InitLifecycle ==
    /\ text = <<>>
    /\ args = NoArgs
    /\ links = <<>>
    /\ pstep = "idle"
    /\ \E n \in VariantListings({Variants(NotesDir, <<"b">>, {<<>>, LinkA})}),
          b \in VariantListings({Variants(BlogDir, <<"a">>, {<<>>, LinkTwice})}) :
        files = n \o b
    /\ rtarget = <<>>
    /\ resolved = None
    /\ fsLog = <<>>
    /\ rstep = "idle"
    /\ index = <<>>
    /\ istate = "Empty"
    /\ fresh = FALSE
    /\ broken = None
    /\ stats = None
    /\ InitMore

\* await index.buildIndex(), on an index in any state
Rebuild ==
    /\ index' = rebuildIndex(index, files)
    /\ istate' = "Built"
    /\ fresh' = TRUE
    /\ hops' = buildHops(istate)
    /\ called' = [op |-> "buildIndex", before |-> index, held |-> origin]
    /\ origin' = "build"
    /\ UNCHANGED <<parserVars, files, resolverVars, broken, stats, presult, cache, clock>>

\* await index.saveCache(cachePath)
SaveCache ==
    /\ cache' = Some(saveCache(index, clock))
    /\ hops' = <<>>
    /\ called' = [op |-> "saveCache"]
    /\ UNCHANGED <<parserVars, files, resolverVars, indexVars, presult, clock, origin>>

\* await index.loadCache(cachePath)
LoadCache ==
    /\ \E r \in {loadCache(index, cache)} :
        /\ index' = r.index
        /\ called' = [op |-> "loadCache", value |-> r.loaded, before |-> index]
    /\ istate' = loadCacheState(istate, cache)
    /\ fresh' = FALSE
    /\ hops' = loadCacheHops(istate, cache)
    /\ origin' = (IF istate' = "Empty" THEN "none"
                  ELSE IF called'.value THEN "cache"
                  ELSE origin)
    /\ UNCHANGED <<parserVars, files, resolverVars, broken, stats, presult, cache, clock>>

\* await index.isCacheValid(cachePath)
IsCacheValid ==
    /\ hops' = <<>>
    /\ called' = [op |-> "isCacheValid", value |-> isCacheValid(cache, clock, files)]
    /\ UNCHANGED <<parserVars, files, resolverVars, indexVars, presult, cache, clock, origin>>

\* index.getBacklinks(id)
GetBacklinks ==
    /\ \E id \in LifecycleIds :
        called' = [op |-> "getBacklinks", id |-> id, value |-> getBacklinks(index, id)]
    /\ hops' = <<>>
    /\ UNCHANGED <<parserVars, files, resolverVars, indexVars, presult, cache, clock, origin>>

\* index.getOutgoingLinks(id)
GetOutgoingLinks ==
    /\ \E id \in LifecycleIds :
        called' = [op |-> "getOutgoingLinks", id |-> id,
                   value |-> getOutgoingLinks(index, id)]
    /\ hops' = <<>>
    /\ UNCHANGED <<parserVars, files, resolverVars, indexVars, presult, cache, clock, origin>>

\* index.getMostLinkedNotes(limit)
GetMostLinkedNotes ==
    /\ \E limit \in 0..MaxLimit :
        called' = [op |-> "getMostLinkedNotes", limit |-> limit,
                   value |-> getMostLinkedNotes(index, limit)]
    /\ hops' = <<>>
    /\ UNCHANGED <<parserVars, files, resolverVars, indexVars, presult, cache, clock, origin>>

\* index.exportGraph()
ExportGraph ==
    /\ called' = [op |-> "exportGraph", value |-> exportGraph(index, files)]
    /\ hops' = <<>>
    /\ UNCHANGED <<parserVars, files, resolverVars, indexVars, presult, cache, clock, origin>>

\* a note is deleted from the corpus; the index is not told
RemoveFile ==
    /\ \E i \in 1..Len(files) :
        files' = SubSeq(files, 1, i - 1) \o SubSeq(files, i + 1, Len(files))
    /\ fresh' = FALSE
    /\ hops' = <<>>
    /\ called' = NoCall
    /\ UNCHANGED <<parserVars, resolverVars, index, istate, broken, stats, presult,
                   cache, clock, origin>>

\* the cache file is deleted or overwritten from outside
DamageCache ==
    /\ cache' \in {None} \cup {Some(c) : c \in DamagedCaches(cache)}
    /\ cache' # cache
    /\ hops' = <<>>
    /\ called' = NoCall
    /\ UNCHANGED <<parserVars, files, resolverVars, indexVars, presult, clock, origin>>

NextLifecycle ==
    \/ Rebuild \/ SaveCache \/ LoadCache \/ IsCacheValid
    \/ GetBacklinks \/ GetOutgoingLinks \/ GetMostLinkedNotes \/ ExportGraph
    \/ RemoveFile \/ DamageCache

SpecLifecycle == InitLifecycle /\ [][NextLifecycle]_vars

(***************************************************************************)
(* Loader specification: loadOrBuildLinkIndex at the start of a process,   *)
(* between changes of the corpus, of the cache file and of the time        *)
(***************************************************************************)
\* const index = await loadOrBuildLinkIndex(enkiduRoot, cachePath), with the
\* cache path given or omitted
LoadOrBuild ==
    /\ \E cachePath \in {None, Some("cache")} :
        \E r \in {loadOrBuildLinkIndex(files, cachePath, cache, clock)} :
            /\ index' = r.index
            /\ cache' = savedByLoadOrBuild(r, cachePath, cache, clock)
            /\ origin' = r.from
            /\ called' = [op |-> "loadOrBuildLinkIndex", cachePath |-> cachePath,
                          file |-> cache, from |-> r.from, query |-> None]
    /\ istate' = "Built"
    /\ fresh' = (origin' = "build")
    /\ hops' = (IF origin' = "build" THEN buildHops("Empty")
                ELSE loadCacheHops("Empty", cache))
    /\ UNCHANGED <<parserVars, files, resolverVars, broken, stats, presult, clock>>

\* index.findBrokenLinks() on the index the loader returned
QueryReturned ==
    /\ called.op = "loadOrBuildLinkIndex"
    /\ called.query = None
    /\ called' = [called EXCEPT !.query = Some(findBrokenLinksOrThrow(index, files))]
    /\ UNCHANGED <<parserVars, files, resolverVars, indexVars, presult, cache, clock,
                   hops, origin>>

\* the content of a note is edited; the number of files stays
EditFile ==
    /\ \E i \in 1..Len(files), content \in {<<>>, LinkA} :
        /\ files[i].content # content
        /\ files' = [files EXCEPT ![i].content = content]
    /\ fresh' = FALSE
    /\ hops' = <<>>
    /\ called' = NoCall
    /\ UNCHANGED <<parserVars, resolverVars, index, istate, broken, stats, presult,
                   cache, clock, origin>>

\* time passes: the hour of the cache to the millisecond, or one more
Tick ==
    /\ clock' \in {MaxAge, MaxAge + 1}
    /\ clock' > clock
    /\ hops' = <<>>
    /\ called' = NoCall
    /\ UNCHANGED <<parserVars, files, resolverVars, indexVars, presult, cache, origin>>

\* the cache file is overwritten from outside with a content JSON.parse
\* accepts: a timestamp Date cannot parse, entries without their fields, a
\* last element that is no pair
ForgeCache ==
    /\ cache # None /\ cache[1].json /\ cache[1].index # None
    /\ \E forged \in
            {[cache[1] EXCEPT !.timestamp = None],
             [cache[1] EXCEPT !.index = Some(Tuple([i \in 1..Len(@[1]) |->
                  IF @[1][i].pair
                  THEN [pair |-> TRUE, entry |-> [slug |-> @[1][i].entry.slug]]
                  ELSE @[1][i]]))],
             [cache[1] EXCEPT !.index = Some(Tuple([i \in 1..Len(@[1]) |->
                  IF i = Len(@[1]) THEN [pair |-> FALSE] ELSE @[1][i]]))]} :
        /\ forged # cache[1]
        /\ cache' = Some(forged)
    /\ hops' = <<>>
    /\ called' = NoCall
    /\ UNCHANGED <<parserVars, files, resolverVars, indexVars, presult, clock, origin>>

NextLoadOrBuild ==
    \/ LoadOrBuild \/ QueryReturned
    \/ EditFile \/ RemoveFile \/ Tick \/ DamageCache \/ ForgeCache

SpecLoadOrBuild == InitLifecycle /\ [][NextLoadOrBuild]_vars

(***************************************************************************)
(* Caller specification: a caller of one LinkIndex that changes the values *)
(* the methods returned to it                                              *)
(***************************************************************************)
CallerIds == {<<"b">>, <<"z", "z">>}

\* the longest array the caller pushes to
MaxHeld == 1

\* index.getBacklinks(id) and index.getOutgoingLinks(id), the caller keeps
\* the array
KeepReturned ==
    /\ \E id \in CallerIds :
        called' \in {[op |-> "getBacklinks", id |-> id,
                      value |-> getBacklinks(index, id)],
                     [op |-> "getOutgoingLinks", id |-> id,
                      value |-> getOutgoingLinks(index, id)]}
    /\ hops' = <<>>
    /\ UNCHANGED <<parserVars, files, resolverVars, indexVars, presult, cache, clock, origin>>

\* the caller pushes an element to the array it holds, or empties the array
\* or the Map it holds
MutateReturned ==
    /\ called.op \in {"buildIndex", "getBacklinks", "getOutgoingLinks"}
    /\ \E how \in {"push", "clear"} :
        /\ how = "push" => called.op # "buildIndex" /\ Len(called.value) <= MaxHeld
        /\ \E ref \in {returnedObject(index, called)} :
            /\ index' = (IF how = "clear" THEN clearReturned(index, ref)
                         ELSE pushReturned(index, ref,
                                  IF ref.is = "outgoingLinks"
                                  THEN extractWikiLinks(LinkA)[1]
                                  ELSE [sourceSlug |-> <<"x">>,
                                        sourcePath |-> <<"x">>,
                                        link       |-> extractWikiLinks(LinkA)[1]]))
            /\ called' = [op |-> "mutated", how |-> how, held |-> ref,
                          before |-> index]
    /\ hops' = <<>>
    /\ UNCHANGED <<parserVars, files, resolverVars, istate, fresh, broken, stats,
                   presult, cache, clock, origin>>

NextCaller == Rebuild \/ KeepReturned \/ MutateReturned

SpecCaller == InitLifecycle /\ [][NextCaller]_vars

(***************************************************************************)
(* Listing specification: directories that cannot be listed                *)
(***************************************************************************)
\* the directories whose permissions change: a content root with notes, a
\* subdirectory of it, the second root, and the root listed last
Directories == {NotesDir, join(NotesDir, <<"p">>), BlogDir, DailyDir}

ListingTargets == {<<"a">>, <<"b">>}

\* chmod a-r dir: the directory exists and readdirSync(dir) throws
DenyDirectory ==
    /\ \E dir \in Directories :
        /\ \A i \in 1..Len(files) : files[i].path # dir
        /\ files' = Append(files, [path |-> dir, listable |-> FALSE])
    /\ fresh' = FALSE
    /\ hops' = <<>>
    /\ called' = NoCall
    /\ UNCHANGED <<parserVars, resolverVars, index, istate, broken, stats, presult,
                   cache, clock, origin>>

\* chmod a+r dir, of a directory that holds no file of its own
AllowDirectory ==
    /\ \E i \in 1..Len(files) :
        /\ IsUnlistable(files[i])
        /\ files' = SubSeq(files, 1, i - 1) \o SubSeq(files, i + 1, Len(files))
    /\ fresh' = FALSE
    /\ hops' = <<>>
    /\ called' = NoCall
    /\ UNCHANGED <<parserVars, resolverVars, index, istate, broken, stats, presult,
                   cache, clock, origin>>

\* resolveWikiLink(target, root)
ResolveListed ==
    /\ \E target \in ListingTargets :
        called' = [op |-> "resolveWikiLink", target |-> target,
                   value |-> resolveWikiLink(target, files)]
    /\ hops' = <<>>
    /\ UNCHANGED <<parserVars, files, resolverVars, indexVars, presult, cache, clock, origin>>

NextListing == Rebuild \/ ResolveListed \/ DenyDirectory \/ AllowDirectory

SpecListing == InitLifecycle /\ [][NextListing]_vars

(***************************************************************************)
(* Incremental specification: the corpus changes by one note and the       *)
(* caller tells the index                                                  *)
(***************************************************************************)
\* the methods of the class LinkIndex
LinkIndexMethods ==
    {"buildIndex", "getBacklinks", "getOutgoingLinks", "findBrokenLinks",
     "getStatistics", "exportGraph", "saveCache", "loadCache", "isCacheValid",
     "getOrphanedNotes", "getMostLinkedNotes", "getAllMarkdownFiles",
     "getSlugFromPath", "resolveTargetSlug", "getNoteTitleFromPath"}

\* index[method](...) for a method that patches the graph: a name the class
\* does not define is undefined, the call throws a TypeError and the Map
\* is as it was
callPatch(ix, method) ==
    IF method \in LinkIndexMethods
    THEN [threw |-> FALSE, index |-> ix]
    ELSE [threw |-> TRUE, index |-> ix]

IncrementalPool ==
    Variants(NotesDir, <<"b">>, {<<>>, LinkA}) \cup Variants(BlogDir, <<"a">>, {<<>>, LinkTwice})

\* a note is written and index.addNote(path) is called
AddNote ==
    /\ \E f \in IncrementalPool :
        /\ ~fileExists(files, f.path)
        /\ files' = Append(files, f)
    /\ \E r \in {callPatch(index, "addNote")} :
        /\ index' = r.index
        /\ called' = [op |-> "addNote", threw |-> r.threw]
    /\ fresh' = FALSE
    /\ hops' = <<>>
    /\ UNCHANGED <<parserVars, resolverVars, istate, broken, stats, presult, cache,
                   clock, origin>>

\* a note is deleted and index.removeNote(slug) is called
RemoveNote ==
    /\ \E i \in 1..Len(files) :
        files' = SubSeq(files, 1, i - 1) \o SubSeq(files, i + 1, Len(files))
    /\ \E r \in {callPatch(index, "removeNote")} :
        /\ index' = r.index
        /\ called' = [op |-> "removeNote", threw |-> r.threw]
    /\ fresh' = FALSE
    /\ hops' = <<>>
    /\ UNCHANGED <<parserVars, resolverVars, istate, broken, stats, presult, cache,
                   clock, origin>>

\* a note is edited and index.updateNote(path) is called
UpdateNote ==
    /\ \E i \in 1..Len(files), content \in {<<>>, LinkA} :
        /\ files[i].content # content
        /\ files' = [files EXCEPT ![i].content = content]
    /\ \E r \in {callPatch(index, "updateNote")} :
        /\ index' = r.index
        /\ called' = [op |-> "updateNote", threw |-> r.threw]
    /\ fresh' = FALSE
    /\ hops' = <<>>
    /\ UNCHANGED <<parserVars, resolverVars, istate, broken, stats, presult, cache,
                   clock, origin>>

NextIncremental == Rebuild \/ AddNote \/ RemoveNote \/ UpdateNote

SpecIncremental == InitLifecycle /\ [][NextIncremental]_vars

(***************************************************************************)
(* Notes inputs                                                            *)
(***************************************************************************)
\* a note of NoteManager.createNote: notes/<category>/<name>.md
Note(category, name, tags) ==
    [path     |-> join(join(NotesDir, category), name \o DotMd),
     content  |-> <<"#">>,
     readable |-> TRUE,
     matter   |-> [throws |-> FALSE, title |-> Some(name), tags |-> tags,
                   category |-> category, type |-> "note", updated |-> 0]]

\* notes/x/a.md; a note of the same file name in another category; a note
\* of another name
NotesX == {<<Note(<<"x">>, <<"a">>, tags)>> : tags \in {<<"o">>, <<"k", "o">>, <<"k">>}}
NotesY == {<<>>} \cup {<<Note(<<"y">>, <<"a">>, tags)>> : tags \in {<<"o">>, <<"k">>}}
NotesC == {<<>>, <<Note(<<"y">>, <<"c">>, <<"o", "k">>)>>}

OldTags == {"o", "q"}
NewTags == {"n"}
Categories == {<<"x">>, <<"y">>}
NoteNames == {<<"a">>, <<"c">>, <<"q">>,
              <<"n", "o", "t", "e", "s", "/", "y", "/", "a", ".", "m", "d">>}

(***************************************************************************)
(* Notes specification: the NoteManager of one corpus                      *)
(***************************************************************************)
InitNotes ==
    /\ text = <<>>
    /\ args = NoArgs
    /\ links = <<>>
    /\ pstep = "idle"
    /\ \E x \in NotesX, y \in NotesY, c \in NotesC : files = x \o y \o c
    /\ rtarget = <<>>
    /\ resolved = None
    /\ fsLog = <<>>
    /\ rstep = "idle"
    /\ index = <<>>
    /\ istate = "Empty"
    /\ fresh = FALSE
    /\ broken = None
    /\ stats = None
    /\ InitMore

\* await noteManager.renameTag(oldTag, newTag)
RenameTag ==
    /\ \E oldTag \in OldTags, newTag \in NewTags :
        \E r \in {renameTag(files, oldTag, newTag, clock)} :
            /\ files' = r.fs
            /\ called' = [op |-> "renameTag", oldTag |-> oldTag, newTag |-> newTag,
                          threw |-> r.threw,
                          value |-> IF r.threw THEN None ELSE Some(r.value),
                          before |-> files]
    /\ UNCHANGED <<parserVars, resolverVars, indexVars, presult, cache, clock, hops,
                   origin>>

\* await noteManager.moveNoteToCategory(slugOrPath, newCategory)
MoveNoteToCategory ==
    /\ \E slugOrPath \in NoteNames, newCategory \in Categories :
        \E r \in {moveNoteToCategory(files, slugOrPath, newCategory, clock)} :
            /\ files' = r.fs
            /\ called' = [op |-> "moveNoteToCategory", slugOrPath |-> slugOrPath,
                          newCategory |-> newCategory, threw |-> r.threw,
                          value |-> IF r.threw THEN None ELSE Some(r.note),
                          before |-> files]
    /\ UNCHANGED <<parserVars, resolverVars, indexVars, presult, cache, clock, hops,
                   origin>>

NextNotes == RenameTag \/ MoveNoteToCategory \/ Tick

SpecNotes == InitNotes /\ [][NextNotes]_vars

(***************************************************************************)
(* Converter inputs                                                        *)
(***************************************************************************)
NoteAB == File(NotesDir, <<"a", "-", "b">>, <<>>)
Jan15 == join(join(<<"2", "0", "2", "6">>, <<"0", "1">>), <<"1", "5">>)

\* notes/a-b.md: absent; without front matter; with a title; with front
\* matter that gray-matter rejects; unreadable
ConvertNotes ==
    {<<>>, <<NoteAB>>,
     <<[NoteAB EXCEPT !.content = <<"x">>] @@ [matter |-> [throws |-> FALSE, title |-> Some(<<"T">>)]]>>,
     <<NoteAB @@ [matter |-> [throws |-> TRUE]]>>,
     <<Unreadable(NoteAB)>>}
ConvertBlog == {<<>>, <<File(BlogDir, <<"a">>, <<>>)>>}
ConvertDaily ==
    {<<>>, <<File(DailyDir, Day15, <<>>)>>,
     <<File(DailyDir, Jan15, <<>>), File(DailyDir, Day15, <<>>)>>}

Wiki(target) == <<"[", "[">> \o target \o <<"]", "]">>

\* the targets: a note by its stem and by another spelling, a blog post, a
\* daily note by its date, a note that does not exist
ConvertTargets ==
    {<<"a", "-", "b">>, <<"A", " ", "b">>, <<"a">>,
     <<"2", "0", "2", "6", "-", "0", "2", "-", "1", "5">>, <<"z", "z">>}

\* one reference: bare, with a display text, with a blank display text; and
\* two references in a text of two lines
ConvertTexts ==
    {Wiki(t) : t \in ConvertTargets}
    \cup {Wiki(t \o <<"|", "x">>) : t \in {<<"a", "-", "b">>, <<"z", "z">>}}
    \cup {Wiki(t \o <<"|", " ">>) : t \in {<<"a", "-", "b">>, <<"z", "z">>}}
    \cup {<<"x", " ">> \o Wiki(<<"z", "z">>) \o <<"\n">> \o Wiki(<<"a">>) \o <<" ", "y">>}

ConvertSources == {NoteAB.path, File(DailyDir, Day15, <<>>).path}

ConvertOptions ==
    {DefaultOptions,
     [DefaultOptions EXCEPT !.brokenLinkStrategy = "text"],
     [DefaultOptions EXCEPT !.brokenLinkStrategy = "remove"],
     [DefaultOptions EXCEPT !.useAbsolutePaths = TRUE, !.basePath = <<"/", "d">>]}

(***************************************************************************)
(* Converter specification                                                 *)
(***************************************************************************)
InitConvert ==
    /\ text = <<>>
    /\ args = NoArgs
    /\ links = <<>>
    /\ pstep = "idle"
    /\ \E n \in ConvertNotes, b \in ConvertBlog, d \in ConvertDaily :
        files = n \o b \o d
    /\ rtarget = <<>>
    /\ resolved = None
    /\ fsLog = <<>>
    /\ rstep = "idle"
    /\ index = <<>>
    /\ istate = "Empty"
    /\ fresh = FALSE
    /\ broken = None
    /\ stats = None
    /\ InitMore

\* convertWikiLinksToMarkdown(content, sourceFilePath, pkmRoot, options)
ConvertWikiLinksToMarkdown ==
    /\ called = NoCall
    /\ \E content \in ConvertTexts, sourceFilePath \in ConvertSources,
          options \in ConvertOptions :
        called' = [op             |-> "convertWikiLinksToMarkdown",
                   content        |-> content,
                   sourceFilePath |-> sourceFilePath,
                   options        |-> options,
                   value          |-> convertWikiLinksToMarkdown(content, sourceFilePath,
                                                                 files, options)]
    /\ UNCHANGED <<parserVars, files, resolverVars, indexVars, presult, cache, clock,
                   hops, origin>>

\* convertMarkdownLinksToWiki(converted, sourceFilePath), on the text the
\* conversion returned and for the same source file
ConvertMarkdownLinksToWiki ==
    /\ called.op = "convertWikiLinksToMarkdown"
    /\ called' = [op             |-> "convertMarkdownLinksToWiki",
                  content        |-> called.value,
                  sourceFilePath |-> called.sourceFilePath,
                  original       |-> called.content,
                  options        |-> called.options,
                  value          |-> convertMarkdownLinksToWiki(called.value,
                                                                called.sourceFilePath)]
    /\ UNCHANGED <<parserVars, files, resolverVars, indexVars, presult, cache, clock,
                   hops, origin>>

NextConvert == ConvertWikiLinksToMarkdown \/ ConvertMarkdownLinksToWiki

SpecConvert == InitConvert /\ [][NextConvert]_vars

(***************************************************************************)
(* Parser properties                                                       *)
(***************************************************************************)
\* C8: every reference returned by extractWikiLinks has startIndex < endIndex
\* and raw = text.slice(startIndex, endIndex), the offsets being positions in
\* the whole text.
C8_OffsetsSpanRaw ==
    pstep = "extracted" =>
        \A i \in 1..Len(links) :
            /\ links[i].startIndex < links[i].endIndex
            /\ links[i].endIndex <= Len(text)
            /\ links[i].raw = slice(text, links[i].startIndex, links[i].endIndex)

\* a reference on a later line than the first, after a non-empty line
C8_Witness ==
    /\ pstep = "extracted"
    /\ \E i \in 1..Len(links) : links[i].line >= 2 /\ links[i].startIndex >= 2

\* C9: a bracket sequence with an inner [ or ] before the closing ]] is
\* rejected entirely: no returned reference has a target or displayText that
\* contains [ or ].
C9_NestedBracketsRejected ==
    pstep = "extracted" =>
        \A i \in 1..Len(links) :
            /\ Range(links[i].target) \cap {"[", "]"} = {}
            /\ links[i].displayText # None =>
                   Range(links[i].displayText[1]) \cap {"[", "]"} = {}

\* C10 as stated: for every target and every optional displayText,
\* extractWikiLinks(createWikiLink(target, displayText)) is exactly one
\* reference with that target and that displayText.
C10_RoundTripEveryInput ==
    (pstep = "extracted" /\ args.given) =>
        /\ Len(links) = 1
        /\ links[1].target = args.target
        /\ links[1].displayText = args.displayText

\* the inputs the wiki-link syntax can carry
RoundTrippable(a) ==
    /\ a.target # <<>>
    /\ trim(a.target) = a.target
    /\ Range(a.target) \cap {"]", "|", "\n"} = {}
    /\ a.displayText # None =>
        /\ a.displayText[1] # <<>>
        /\ trim(a.displayText[1]) = a.displayText[1]
        /\ Range(a.displayText[1]) \cap {"]", "\n"} = {}

\* C10 amended: the round trip holds for every non-empty target without
\* surrounding whitespace, ], | or newline, and every displayText that is
\* omitted or non-empty without surrounding whitespace, ] or newline.
C10_RoundTripWellFormed ==
    (pstep = "extracted" /\ args.given /\ RoundTrippable(args)) =>
        /\ Len(links) = 1
        /\ links[1].target = args.target
        /\ links[1].displayText = args.displayText
        /\ links[1].raw = text

C10_Witness ==
    /\ pstep = "extracted" /\ args.given /\ RoundTrippable(args)
    /\ args.displayText # None
    /\ "[" \in Range(args.target)
    /\ Len(links) = 1 /\ links[1].displayText = args.displayText

\* the text with every span of ls replaced, built from the left: the
\* characters from the position at up to the next span, the replacement, and
\* so on to the end of the text
RECURSIVE Rewritten(_, _, _, _)
Rewritten(t, ls, at, replacer) ==
    IF ls = <<>> THEN SubSeq(t, at + 1, Len(t))
    ELSE SubSeq(t, at + 1, Head(ls).startIndex)
         \o replacerText(replacer, Head(ls))
         \o Rewritten(t, Tail(ls), Head(ls).endIndex, replacer)

\* C11: replaceWikiLinks replaces the span of every extracted reference with
\* replacer(reference) and leaves every other character unchanged and in
\* order; the spans lie one after the other; a text without a reference is
\* returned unchanged, and replacing again with r => r.target changes nothing
\* there.
C11_ReplaceSpansOnly ==
    pstep = "replaced" =>
        LET ls == extractWikiLinks(text)
        IN /\ \A i \in 1..(Len(ls) - 1) : ls[i].endIndex <= ls[i + 1].startIndex
           /\ presult.value = Rewritten(text, ls, 0, presult.replacer)
           /\ ls = <<>> =>
                  /\ presult.value = text
                  /\ replaceWikiLinks(presult.value, "target") = presult.value

\* two references replaced by texts of another length, and after them a
\* character that stays
C11_Witness ==
    /\ pstep = "replaced"
    /\ presult.replacer \in {"target", "markdown"}
    /\ Len(extractWikiLinks(text)) = 2
    /\ presult.value # text
    /\ presult.value[Len(presult.value)] = "a"
    /\ text[Len(text)] = "a"

\* C12 as stated: parseWikiLink succeeds only if the first match spans the
\* entire input; with characters before or after the first reference it
\* returns null.
C12_ParseSpansInput ==
    (pstep = "parsed" /\ presult.value # None) =>
        presult.value[1].raw = text

\* C12 amended: parseWikiLink returns the first reference of the input
\* wherever it stands, with startIndex 0 and endIndex the length of the
\* reference, and null exactly when the input holds no reference.
C12_ParseFirstMatch ==
    pstep = "parsed" =>
        LET starts == {i \in 1..Len(text) : RegexMatchAt(text, i) # None}
            first == CHOOSE i \in starts : \A j \in starts : i <= j
        IN /\ (presult.value = None) = (starts = {})
           /\ starts # {} =>
                LET link == presult.value[1]
                IN /\ link.raw = SubSeq(text, first, first + Len(link.raw) - 1)
                   /\ link.target = trim(RegexMatchAt(text, first)[1].g1)
                   /\ link.startIndex = 0
                   /\ link.endIndex = Len(link.raw)

\* a reference is returned for an input with characters before and after it
C12_Witness ==
    /\ pstep = "parsed" /\ presult.value # None
    /\ Len(text) > Len(presult.value[1].raw)
    /\ text[1] = "a" /\ text[Len(text)] = "a"

\* C13: createWikiLink returns [[target|displayText]] whenever a displayText
\* is supplied, the empty string included, and [[target]] only when it is
\* omitted.
C13_DisplayWhenSupplied ==
    pstep = "created" =>
        text = IF args.displayText # None
               THEN <<"[", "[">> \o args.target \o <<"|">> \o args.displayText[1]
                    \o <<"]", "]">>
               ELSE <<"[", "[">> \o args.target \o <<"]", "]">>

(***************************************************************************)
(* Resolver properties                                                     *)
(***************************************************************************)
Stems == LET all == getAllMarkdownFiles(files)
         IN Tuple([i \in 1..Len(all) |-> basename(all[i])])

HasExact(stems, t) == \E i \in 1..Len(stems) : stems[i] = t
HasCaseInsensitive(stems, t) ==
    LET lowerTarget == toLowerCase(t)
    IN \E i \in 1..Len(stems) : toLowerCase(stems[i]) = lowerTarget
HasSlugified(stems, t) ==
    LET slugifiedTarget == slugify(t)
    IN \E i \in 1..Len(stems) :
           stems[i] = slugifiedTarget \/ toLowerCase(stems[i]) = slugifiedTarget
DateOf(t) == {dateMatch(t, 1), dateMatch(t, 2), dateMatch(t, 3)} \ {None}
HasDaily(t) == \E m \in DateOf(t) : fileExists(files, dailyPathOf(m[1]))

\* C5: resolveWikiLink returns the hit of the first strategy that has one, in
\* the order exact stem, case-insensitive stem, slugified target, date
\* pattern, whatever the scan order of the files.
C5_StrategyOrder ==
    rstep = "resolved" =>
        LET r == resolved[1]
            t == rtarget
            stems == Stems
            stem == basename(r.resolvedPath[1])
            s1 == HasExact(stems, t)
            s2 == HasCaseInsensitive(stems, t)
            s3 == HasSlugified(stems, t)
            s4 == HasDaily(t)
        IN /\ r.exists = (s1 \/ s2 \/ s3 \/ s4)
           /\ r.exists = (r.resolvedPath # None)
           /\ r.exists => fileExists(files, r.resolvedPath[1])
           /\ s1 => stem = t
           /\ (~s1 /\ s2) => toLowerCase(stem) = toLowerCase(t)
           /\ (~s1 /\ ~s2 /\ s3) =>
                  (stem = slugify(t) \/ toLowerCase(stem) = slugify(t))
           /\ (~s1 /\ ~s2 /\ ~s3 /\ s4) =>
                  \E m \in DateOf(t) : r.resolvedPath[1] = dailyPathOf(m[1])

\* target "Note": a file that matches only case-insensitively is listed
\* before the file that matches exactly, and the exact match is returned
C5_Witness ==
    /\ rstep = "resolved"
    /\ rtarget = <<"N", "o", "t", "e">>
    /\ Len(files) >= 2
    /\ basename(files[1].path) = <<"n", "o", "t", "e">>
    /\ resolved[1].exists
    /\ basename(resolved[1].resolvedPath[1]) = <<"N", "o", "t", "e">>

\* the case-insensitive edit distance of every candidate stem to the target
Distances(stems, t) ==
    LET lowerTarget == toLowerCase(t)
    IN Tuple([k \in 1..Len(stems) |->
                 levenshteinDistance(lowerTarget, toLowerCase(stems[k]))])

\* C6: a failed resolution suggests at most 5 stems, each within distance 5,
\* in ascending distance with ties in scan order, and no omitted candidate is
\* closer than a listed one.
C6_Suggestions ==
    (rstep = "resolved" /\ ~resolved[1].exists) =>
        LET t == rtarget
            sug == resolved[1].suggestions[1]
            stems == Stems
            dist == Distances(stems, t)
            close == {k \in 1..Len(stems) : dist[k] <= 5}
            \* the place of candidate k: by distance, then by scan order
            rank == [k \in close |->
                        1 + Cardinality({m \in close :
                                \/ dist[m] < dist[k]
                                \/ dist[m] = dist[k] /\ m < k})]
            listed == {k \in close : rank[k] <= 5}
        IN /\ Len(sug) <= 5
           /\ Len(sug) = Cardinality(listed)
           /\ \A k \in listed : sug[rank[k]] = stems[k]
           /\ \A k, m \in listed : rank[k] < rank[m] => dist[k] <= dist[m]
           /\ \A k \in close \ listed : \A m \in listed : dist[m] <= dist[k]

\* five suggestions of different distances, a close candidate left out and a
\* candidate beyond the limit
C6_Witness ==
    /\ rstep = "resolved" /\ ~resolved[1].exists
    /\ Len(resolved[1].suggestions[1]) = 5
    /\ LET dist == Distances(Stems, rtarget)
       IN /\ Cardinality({k \in DOMAIN dist : dist[k] <= 5}) > 5
          /\ \E k \in DOMAIN dist : dist[k] > 5
          /\ \E k \in DOMAIN dist : k > 1 /\ dist[k - 1] > dist[k] /\ dist[k - 1] <= 5

\* the case of C7: a date target whose daily note exists and that no stem
\* matches under strategies 1 to 3
DateCase ==
    /\ rstep = "resolved"
    /\ HasDaily(rtarget)
    /\ LET stems == Stems
       IN /\ ~HasExact(stems, rtarget)
          /\ ~HasCaseInsensitive(stems, rtarget)
          /\ ~HasSlugified(stems, rtarget)

Listed == \E i \in 1..Len(fsLog) : fsLog[i].op = "listFilesRecursive"

\* C7 as stated: in the date case resolveWikiLink returns the daily path and
\* reaches it without listing the corpus.
C7_DateWithoutListing ==
    DateCase =>
        /\ \E m \in DateOf(rtarget) : resolved[1].resolvedPath = Some(dailyPathOf(m[1]))
        /\ ~Listed

\* C7 amended: in the date case resolveWikiLink returns the daily path, found
\* by an existence probe of that path alone, after the content roots have
\* been listed for strategies 1 to 3.
C7_DateAfterListing ==
    DateCase =>
        /\ resolved[1].exists
        /\ \E m \in DateOf(rtarget) : resolved[1].resolvedPath = Some(dailyPathOf(m[1]))
        /\ fsLog[Len(fsLog)] = [op |-> "fileExists", path |-> resolved[1].resolvedPath[1]]
        /\ \E i \in 1..(Len(fsLog) - 1) :
               fsLog[i] = [op |-> "listFilesRecursive", path |-> DailyDir]

C7_Witness ==
    /\ DateCase
    /\ rtarget = <<"2", "0", "2", "6", "0", "2", "1", "5">>
    /\ Len(files) >= 2
    /\ resolved[1].resolvedPath = Some(join(DailyDir, Day15 \o DotMd))

(***************************************************************************)
(* Index properties                                                        *)
(***************************************************************************)
AfterBuild == istate = "Built" /\ fresh

\* the path every outgoing link of every entry resolves to, as an option
ResolvedPaths ==
    Tuple([s \in 1..Len(index) |->
        Tuple([j \in 1..Len(index[s].outgoingLinks) |->
            resolveWikiLink(index[s].outgoingLinks[j].target, files).resolvedPath])])

\* the outgoing links of the graph: <<entry, position>>
OutgoingRefs ==
    UNION {{<<s, j>> : j \in 1..Len(index[s].outgoingLinks)} : s \in 1..Len(index)}

\* C1: after buildIndex, T.incomingLinks holds an edge {sourceSlug: S.slug,
\* link: L} if and only if L is an outgoing link of S that resolves to
\* T.filePath; the number of incoming edges is the number of outgoing links
\* that resolve to the file of an entry.
C1_IncomingExactlyResolved ==
    AfterBuild =>
        LET paths == ResolvedPaths
            entryFiles == {index[t].filePath : t \in 1..Len(index)}
        IN /\ \A s, t \in 1..Len(index) :
                  {e.link : e \in {x \in Range(index[t].incomingLinks) :
                                      x.sourceSlug = index[s].slug}}
                  = {index[s].outgoingLinks[j] :
                        j \in {k \in 1..Len(index[s].outgoingLinks) :
                                  paths[s][k] = Some(index[t].filePath)}}
           /\ sumIncoming(index, 1)
              = Cardinality({p \in OutgoingRefs :
                    /\ paths[p[1]][p[2]] # None
                    /\ paths[p[1]][p[2]][1] \in entryFiles})

\* C2: after buildIndex, every discovered readable file is the filePath of
\* exactly one entry, every filePath is a discovered file, and there are as
\* many entries as discovered files (counted here without the files that
\* cannot be read, which buildIndex skips).
C2_GraphCoversFiles ==
    AfterBuild =>
        LET all == LinkIndex_getAllMarkdownFiles(files)
            readable == {p \in Range(all) : ~readFileThrows(files, p)}
        IN /\ \A p \in readable :
                  Cardinality({i \in 1..Len(index) : index[i].filePath = p}) = 1
           /\ \A i \in 1..Len(index) : index[i].filePath \in Range(all)
           /\ Len(index) = Cardinality(readable)

\* a target that some strategy of the resolver can resolve in the corpus
Resolvable(stems, t) ==
    HasExact(stems, t) \/ HasCaseInsensitive(stems, t) \/ HasSlugified(stems, t)
    \/ HasDaily(t)

\* the outgoing links of the graph whose target does not resolve
FailingRefs ==
    LET stems == Stems
    IN {p \in OutgoingRefs : ~Resolvable(stems, index[p[1]].outgoingLinks[p[2]].target)}

\* C3: findBrokenLinks().length = getStatistics().brokenLinks
\* = totalLinks - validLinks, totalLinks being the number of outgoing links
\* of all entries.
C3_StatisticsAgree ==
    (broken # None /\ stats # None) =>
        /\ Len(broken[1]) = stats[1].brokenLinks
        /\ stats[1].brokenLinks = stats[1].totalLinks - stats[1].validLinks
        /\ stats[1].totalLinks = Cardinality(OutgoingRefs)
        /\ stats[1].validLinks = Cardinality(OutgoingRefs \ FailingRefs)
        /\ stats[1].totalNotes = Len(index)

\* broken and valid links, one of the valid links without a backlink
C3_Witness ==
    /\ broken # None /\ stats # None
    /\ stats[1].brokenLinks >= 1
    /\ stats[1].validLinks >= 2
    /\ sumIncoming(index, 1) >= 1
    /\ sumIncoming(index, 1) < stats[1].validLinks

\* C4: findBrokenLinks emits exactly one record, with the suggestions of the
\* resolver, for each outgoing link whose target does not resolve and none
\* for a link that resolves; after a build no failing link has contributed an
\* incoming edge.
C4_BrokenLinksExact ==
    broken # None =>
        LET failing == FailingRefs
            link(p) == index[p[1]].outgoingLinks[p[2]]
            recordOf(p) == [sourceSlug  |-> index[p[1]].slug,
                            sourcePath  |-> index[p[1]].filePath,
                            link        |-> link(p),
                            suggestions |-> Some(findSimilarNotes(link(p).target, files))]
        IN /\ Len(broken[1]) = Cardinality(failing)
           /\ \A p \in failing :
                  Cardinality({k \in 1..Len(broken[1]) : broken[1][k] = recordOf(p)}) = 1
           /\ \A k \in 1..Len(broken[1]) : \E p \in failing : broken[1][k] = recordOf(p)
           /\ AfterBuild =>
                  \A p \in failing : \A t \in 1..Len(index) :
                      \A e \in Range(index[t].incomingLinks) :
                          ~(e.sourceSlug = index[p[1]].slug /\ e.link = link(p))

\* after a build: a broken link is reported, another link resolves to a file
\* that is not indexed and is not reported, and a third link has its backlink
C4_Witness ==
    /\ broken # None /\ AfterBuild
    /\ Len(broken[1]) >= 1
    /\ sumIncoming(index, 1) >= 1
    /\ Cardinality(OutgoingRefs) > Len(broken[1]) + sumIncoming(index, 1)

(***************************************************************************)
(* Lifecycle properties                                                    *)
(***************************************************************************)
InGraph(id) == \E i \in 1..Len(index) : index[i].slug = id

\* C14: getBacklinks(id) and getOutgoingLinks(id) return the empty array,
\* and so do not throw, for every id that is not in the graph, whatever the
\* state of the index: before a build, after a build, after a cache load.
C14_UnknownIdsEmpty ==
    (called.op \in {"getBacklinks", "getOutgoingLinks"} /\ ~InGraph(called.id))
        => called.value = <<>>

\* getBacklinks of an unknown id on a graph that is not empty and was loaded
\* from the cache file
C14_Witness ==
    /\ called.op = "getBacklinks"
    /\ ~InGraph(called.id)
    /\ index # <<>>
    /\ origin = "cache"
    /\ called.value = <<>>

\* the place of a lower-case letter in the alphabet
Place(c) == CHOOSE i \in 1..26 : LowerCase[i] = c

\* s is t or comes before t in lexical order; for lower-case slugs
RECURSIVE LexLeq(_, _)
LexLeq(s, t) ==
    IF s = <<>> THEN TRUE
    ELSE IF t = <<>> THEN FALSE
    ELSE IF Head(s) = Head(t) THEN LexLeq(Tail(s), Tail(t))
    ELSE Place(Head(s)) < Place(Head(t))

\* C15: getMostLinkedNotes(limit) returns at most limit entries, ordered by
\* descending count of incoming edges, entries with equal counts being
\* ordered by slug in lexical order.
C15_RankedLexicalTies ==
    called.op = "getMostLinkedNotes" =>
        /\ Len(called.value) <= called.limit
        /\ \A i \in 1..(Len(called.value) - 1) :
            \/ called.value[i].count > called.value[i + 1].count
            \/ /\ called.value[i].count = called.value[i + 1].count
               /\ LexLeq(called.value[i].slug, called.value[i + 1].slug)

\* C16: exportGraph returns one node per entry of the graph and a list of
\* edges in which no two edges have the same (source, target) pair, even
\* when several references connect the pair; the source and the target of
\* every edge are ids of nodes of the node list.
C16_ExportDeduplicated ==
    called.op = "exportGraph" =>
        LET nodes == called.value.nodes
            edges == called.value.edges
            ids == {nodes[i].id : i \in 1..Len(nodes)}
        IN /\ Len(nodes) = Len(index)
           /\ \A i \in 1..Len(nodes) : nodes[i].id = index[i].slug
           /\ \A i, j \in 1..Len(edges) :
                i # j => <<edges[i].source, edges[i].target>>
                             # <<edges[j].source, edges[j].target>>
           /\ \A i \in 1..Len(edges) : edges[i].source \in ids /\ edges[i].target \in ids

\* exportGraph of a graph in which two references of one note reach the same
\* note: one edge for the pair
C16_Witness ==
    /\ called.op = "exportGraph"
    /\ \E t \in 1..Len(index) :
        /\ Len(index[t].incomingLinks) >= 2
        /\ index[t].incomingLinks[1].sourceSlug = index[t].incomingLinks[2].sourceSlug
        /\ Cardinality({i \in 1..Len(called.value.edges) :
                           /\ called.value.edges[i].target = index[t].slug
                           /\ called.value.edges[i].source
                                  = index[t].incomingLinks[1].sourceSlug}) = 1

\* C20: rebuilding discards the previous graph entirely: after buildIndex
\* on an index that already holds a graph, from an earlier build or from
\* loadCache, the graph is the one a new LinkIndex builds from the current
\* corpus; no entry of a removed file survives and no incoming edge is
\* duplicated or carried over.
C20_RebuildDiscards ==
    (called.op = "buildIndex" /\ called.held # "none") =>
        /\ index = buildIndex(files)
        /\ \A i \in 1..Len(index) : fileExists(files, index[i].filePath)

\* buildIndex on a graph that was loaded from the cache, holds incoming
\* edges and has an entry for a file that is gone
C20_Witness ==
    /\ called.op = "buildIndex"
    /\ called.held = "cache"
    /\ \E i \in 1..Len(called.before) : ~fileExists(files, called.before[i].filePath)
    /\ \E i \in 1..Len(called.before) : called.before[i].incomingLinks # <<>>

HopsOfStep ==
    IF istate' = istate THEN hops' = <<>> \/ (hops'[1][1] = istate /\ hops'[Len(hops')][2] = istate)
    ELSE hops' # <<>> /\ hops'[1][1] = istate /\ hops'[Len(hops')][2] = istate'

Parsed(file) == file # None /\ file[1].json

VersionMatches(file) == Parsed(file) /\ file[1].version = "1.0.0"

\* now - timestamp is at most the window of one hour
WithinWindow(file, t) ==
    /\ Parsed(file)
    /\ file[1].timestamp # None
    /\ t - file[1].timestamp[1] <= 60 * 60 * 1000

\* now - timestamp is not known to be more than the window
NotExpired(file, t) ==
    /\ Parsed(file)
    /\ file[1].timestamp = None \/ t - file[1].timestamp[1] <= 60 * 60 * 1000

CountMatches(file, fs) ==
    /\ Parsed(file)
    /\ file[1].index # None
    /\ Len(file[1].index[1]) = Len(listRoots(fs, ContentRoots))

AllPairs(file) ==
    /\ Parsed(file)
    /\ file[1].index # None
    /\ \A i \in 1..Len(file[1].index[1]) : file[1].index[1][i].pair

\* the loader was called with a cache path
LoaderCalled == called.op = "loadOrBuildLinkIndex" /\ called.cachePath # None

EntriesShaped(file) ==
    /\ AllPairs(file)
    /\ \A i \in 1..Len(file[1].index[1]) :
        DOMAIN file[1].index[1][i].entry
            = {"slug", "filePath", "outgoingLinks", "incomingLinks"}

\* C18: every cache read or parse failure, version mismatch, schema
\* mismatch (a missing or unparsable timestamp, entries of the wrong shape)
\* and staleness is a silent cache miss: loadOrBuildLinkIndex returns a
\* freshly built graph, and no exception caused by the content of the cache
\* reaches the caller, from the loader or from later queries on the index.
C18_FailuresAreMisses ==
    (/\ LoaderCalled
     /\ ~(/\ VersionMatches(called.file)
          /\ WithinWindow(called.file, clock)
          /\ EntriesShaped(called.file)))
    => /\ called.from = "build"
       /\ index = buildIndex(files)
       /\ called.query # None => ~called.query[1].threw


(***************************************************************************)
(* Caller properties                                                       *)
(***************************************************************************)
\* C21: what a caller does to a value returned by buildIndex, getBacklinks
\* or getOutgoingLinks (pushing to it, emptying it) does not change what
\* the queries answer afterwards.
C21_ReturnedValuesAreViews ==
    called.op = "mutated" =>
        \A id \in CallerIds :
            /\ getBacklinks(index, id) = getBacklinks(called.before, id)
            /\ getOutgoingLinks(index, id) = getOutgoingLinks(called.before, id)

(***************************************************************************)
(* Listing properties                                                      *)
(***************************************************************************)
\* the markdown files no directory above which is unlistable
InListableDirectory(f) ==
    /\ ~IsUnlistable(f)
    /\ \A i \in 1..Len(files) :
        IsUnlistable(files[i]) => ~startsWith(f.path, files[i].path \o <<"/">>)

\* C22: a directory that cannot be listed is skipped: after buildIndex
\* every markdown file of a listable directory (another root, another
\* subdirectory) has its entry, and resolveWikiLink finds it by its stem.
C22_UnlistableSkipped ==
    /\ called.op = "buildIndex" =>
        \A k \in 1..Len(files) :
            InListableDirectory(files[k]) =>
                \E i \in 1..Len(index) : index[i].filePath = files[k].path
    /\ called.op = "resolveWikiLink" =>
        \A k \in 1..Len(files) :
            InListableDirectory(files[k])
              /\ basename(files[k].path) = called.target \o DotMd
            => called.value.exists

(***************************************************************************)
(* Converter properties                                                    *)
(***************************************************************************)
\* the content with the span of each reference k.. replaced by repl[k],
\* from the 0-based position pos on
RECURSIVE Spliced(_, _, _, _, _)
Spliced(content, ls, repl, k, pos) ==
    IF k > Len(ls) THEN SubSeq(content, pos + 1, Len(content))
    ELSE SubSeq(content, pos + 1, ls[k].startIndex) \o repl[k]
         \o Spliced(content, ls, repl, k + 1, ls[k].endIndex)

Fails(link) == ~resolveWikiLink(link.target, files).exists

Converted == called.op = "convertWikiLinksToMarkdown"

\* what the strategy asks for a reference that fails; under "text" the
\* display text when the predicate hasText holds of the reference
ForBroken(link, strategy, hasText) ==
    CASE strategy = "text" -> IF hasText THEN link.displayText[1] ELSE link.target
      [] strategy = "remove" -> <<>>
      [] OTHER -> link.raw

\* C23 as stated: under "text" a reference that fails becomes its display
\* text if it has one, else its target.
C23_DisplayTextIfPresent ==
    Converted =>
        LET ls == extractWikiLinks(called.content)
            repl == [k \in 1..Len(ls) |->
                        IF Fails(ls[k])
                        THEN ForBroken(ls[k], called.options.brokenLinkStrategy,
                                       ls[k].displayText # None)
                        ELSE convertSingleWikiLink(ls[k], called.sourceFilePath, files,
                                                   called.options)]
        IN called.value = Spliced(called.content, ls, repl, 1, 0)

\* C23: a reference that fails becomes its raw literal under "keep" (the
\* default), the empty string under "remove", and under "text" its display
\* text if that is not empty after trimming, else its target; under "keep" a
\* text whose references all fail is returned unchanged.
C23_BrokenByStrategy ==
    Converted =>
        LET ls == extractWikiLinks(called.content)
            repl == [k \in 1..Len(ls) |->
                        IF Fails(ls[k])
                        THEN ForBroken(ls[k], called.options.brokenLinkStrategy,
                                       ls[k].displayText \notin {None, Some(<<>>)})
                        ELSE convertSingleWikiLink(ls[k], called.sourceFilePath, files,
                                                   called.options)]
        IN /\ called.value = Spliced(called.content, ls, repl, 1, 0)
           /\ (called.options.brokenLinkStrategy = "keep"
                 /\ \A k \in 1..Len(ls) : Fails(ls[k]))
              => called.value = called.content

\* a blank display text under "text", and a text of two references of which
\* one fails under "remove"
C23_Witness ==
    /\ Converted
    /\ \/ /\ called.options.brokenLinkStrategy = "text"
          /\ called.content = Wiki(<<"z", "z", "|", " ">>)
          /\ called.value = <<"z", "z">>
       \/ /\ called.options.brokenLinkStrategy = "remove"
          /\ Len(extractWikiLinks(called.content)) = 2
          /\ \E k \in 1..2 : ~Fails(extractWikiLinks(called.content)[k])

\* the title of the note at path: that of its front matter, else the file
\* name in title case
TitleOf(path) ==
    LET f == fileAt(files, path)
    IN IF f.readable /\ "matter" \in DOMAIN f /\ ~f.matter.throws
          /\ f.matter.title \notin {None, Some(<<>>)}
       THEN f.matter.title[1]
       ELSE titleCase(basename(path))

\* the markdown link to the note a reference resolves to, with the text t
LinkTo(link, t) ==
    LET path == resolveWikiLink(link.target, files).resolvedPath[1]
    IN <<"[">> \o t \o <<"]", "(">>
       \o (IF called.options.useAbsolutePaths
           THEN called.options.basePath \o SubSeq(path, Len(Root) + 1, Len(path))
           ELSE relative(dirname(called.sourceFilePath), path))
       \o <<")">>

\* C24 as stated: the text of the link of a reference that resolves is the
\* title of the note.
C24_LinkTextIsTitle ==
    Converted =>
        LET ls == extractWikiLinks(called.content)
            repl == [k \in 1..Len(ls) |->
                        IF Fails(ls[k])
                        THEN brokenLinkText(ls[k], called.options.brokenLinkStrategy)
                        ELSE LinkTo(ls[k], TitleOf(
                                 resolveWikiLink(ls[k].target, files).resolvedPath[1]))]
        IN called.value = Spliced(called.content, ls, repl, 1, 0)

\* C24: a reference that resolves becomes a markdown link whose text is its
\* display text if that is not empty, else the title of the note: the title
\* of the front matter if there is one, else, and when reading or parsing
\* the note throws, the file name in title case.
C24_LinkTextIsDisplayOrTitle ==
    Converted =>
        LET ls == extractWikiLinks(called.content)
            repl == [k \in 1..Len(ls) |->
                        IF Fails(ls[k])
                        THEN brokenLinkText(ls[k], called.options.brokenLinkStrategy)
                        ELSE LinkTo(ls[k],
                                 IF ls[k].displayText \notin {None, Some(<<>>)}
                                 THEN ls[k].displayText[1]
                                 ELSE TitleOf(resolveWikiLink(ls[k].target, files)
                                                  .resolvedPath[1]))]
        IN called.value = Spliced(called.content, ls, repl, 1, 0)

\* a note whose front matter throws, linked by its title-cased file name
C24_Witness ==
    /\ Converted
    /\ called.content = Wiki(<<"a", "-", "b">>)
    /\ \E i \in 1..Len(files) :
        "matter" \in DOMAIN files[i] /\ files[i].matter.throws
    /\ called.sourceFilePath = NoteAB.path
    /\ called.value = <<"[", "A", " ", "B", "]", "(", "a", "-", "b", ".", "m", "d", ")">>

\* C25: a text whose references all resolve, converted with relative paths
\* and converted back for the same source file, holds as many references,
\* and each resolves to the note it resolved to before.
C25_RoundTripResolves ==
    (called.op = "convertMarkdownLinksToWiki" /\ ~called.options.useAbsolutePaths) =>
        LET before == extractWikiLinks(called.original)
            after == extractWikiLinks(called.value)
        IN (\A k \in 1..Len(before) : ~Fails(before[k])) =>
              /\ Len(after) = Len(before)
              /\ \A k \in 1..Len(before) :
                    resolveWikiLink(after[k].target, files).resolvedPath
                        = resolveWikiLink(before[k].target, files).resolvedPath

(***************************************************************************)
(* Incremental properties                                                  *)
(***************************************************************************)
\* C26: after addNote, removeNote or updateNote the graph is the graph a
\* full buildIndex makes of the same corpus, and the call did not throw.
C26_PatchedEqualsRebuilt ==
    called.op \in {"addNote", "removeNote", "updateNote"} =>
        /\ ~called.threw
        /\ index = rebuildIndex(<<>>, files)

(***************************************************************************)
(* Notes properties                                                        *)
(***************************************************************************)
\* C27: after moveNoteToCategory(slug, newCategory) succeeded on a note of
\* type note, whatever newCategory is, the file of the note is at
\* notes/<newCategory>/<filename> with its title and its content, and
\* readNote(slug) finds a note.
C27_MovedNoteExists ==
    (called.op = "moveNoteToCategory" /\ ~called.threw) =>
        LET was == readNote(called.before, called.slugOrPath)
            newPath == join(join(NotesDir, called.newCategory),
                            basename(was.filePath) \o DotMd)
        IN was.frontmatter.type = "note" =>
              /\ fileExists(files, newPath)
              /\ fileAt(files, newPath).matter.title = was.frontmatter.title
              /\ fileAt(files, newPath).content = was.content
              /\ ~readNote(files, was.slug).threw

\* the paths of the listed notes of fs that carry the tag
Carrying(fs, tag) ==
    LET notes == listNotes(fs, [NoOptions EXCEPT !.tag = Some(tag)])
    IN {notes[k].filePath : k \in 1..Len(notes)}

\* C28: after renameTag(oldTag, newTag) returned n, no listed note carries
\* oldTag, n notes carried it, each of them now carries newTag in its place
\* beside its other tags, and the tags of the other notes are as they were;
\* also with two notes of the same file name in different categories.
C28_RenamedEverywhere ==
    (called.op = "renameTag" /\ ~called.threw /\ called.oldTag # called.newTag) =>
        /\ Carrying(files, called.oldTag) = {}
        /\ called.value = Some(Cardinality(Carrying(called.before, called.oldTag)))
        /\ \A i \in 1..Len(called.before) :
            /\ fileExists(files, called.before[i].path)
            /\ fileAt(files, called.before[i].path).matter.tags
                 = mapTags(called.before[i].matter.tags, called.oldTag, called.newTag)

(***************************************************************************)
(* Cache properties                                                        *)
(***************************************************************************)
\* C29: a loadCache that returns false (no file, JSON that cannot be
\* parsed, another version, an entry list that cannot be read) leaves the
\* graph of the index as it was.
C29_FailedLoadKeepsIndex ==
    (called.op = "loadCache" /\ ~called.value) => index = called.before

\* C30: after loadOrBuildLinkIndex(root, cachePath) with a cache path the
\* cache file exists, has the version 1.0.0 and lists the entries of the
\* graph of the index returned, whether that was loaded or built; each
\* build writes the file anew, with the time of the build.
C30_CacheMirrorsIndex ==
    (LoaderCalled /\ called.cachePath # None) =>
        /\ cache # None
        /\ cache[1].json
        /\ cache[1].version = Version
        /\ cache[1].index
             = Some(Tuple([i \in 1..Len(index) |-> [pair |-> TRUE, entry |-> index[i]]]))
        /\ called.from = "build" => cache[1].timestamp = Some(clock)
        /\ called.from = "cache" => cache = called.file

\* a build that replaced the cache file of an earlier corpus
C30_Witness ==
    /\ LoaderCalled
    /\ called.cachePath # None
    /\ called.from = "build"
    /\ called.file # None
    /\ called.file # cache
    /\ index # <<>>

============================================================================
